---- MODULE Spec2Model ----
(***************************************************************************)
(* Rules engine of the cooperative card game "Project Chaos":              *)
(* GameEngine.executeAction over one GameState object, the standard rule   *)
(* set, the play-effect rules and the rule registry.                       *)
(*                                                                         *)
(* The program is TypeScript; the model follows what the emitted           *)
(* JavaScript does at run time.  A value-returning GameState or Player     *)
(* operation whose result the caller drops changes nothing; a call of a    *)
(* method the receiver does not have, a property read on undefined and a   *)
(* for-of over a plain object raise a TypeError; arithmetic on undefined   *)
(* gives NaN.                                                              *)
(***************************************************************************)
EXTENDS Integers, Sequences, FiniteSets, TLC

VARIABLES
  state,          \* GameEngine.state: the one GameState object of the engine
  eventListeners, \* GameEngine.eventListeners: event types with a listener
  ruleRegistry,   \* GameEngine.ruleRegistry: the rules and rule sets registered
  heap,           \* Player objects with the arrays and objects they refer to
  last            \* record of the latest executeAction call (observation only)

vars == <<state, eventListeners, ruleRegistry, heap, last>>

----------------------------------------------------------------------------
(* Bounds of the model                                                     *)

\* executeAction is only explored while discard and eventHistory together
\* hold fewer entries than this
MaxLog == 2
\* depth of nested rule.apply calls at which the JavaScript stack is exhausted
MaxCallDepth == 5
\* addEventListener is only explored while fewer listeners are registered
MaxListeners == 1

----------------------------------------------------------------------------
(* JavaScript numbers                                                      *)

\* NaN, also standing for undefined wherever it is used as a number:
\* x + undefined = NaN, -undefined = NaN, undefined !== 0, !(undefined > 0),
\* !(undefined <= 0).
NaN == 0 - 1000

Undefined == NaN

JsAdd(a, b) == IF a = NaN \/ b = NaN THEN NaN ELSE a + b

JsSub(a, b) == IF a = NaN \/ b = NaN THEN NaN ELSE a - b

JsNeg(a) == IF a = NaN THEN NaN ELSE 0 - a

\* Math.max(0, Math.min(3, x)); NaN for NaN
Clamp03(x) == IF x = NaN THEN NaN ELSE IF x < 0 THEN 0 ELSE IF x > 3 THEN 3 ELSE x

\* x !== 0
JsNotZero(x) == x = NaN \/ x # 0

\* x > 0
JsPositive(x) == x # NaN /\ x > 0

\* x <= 0
JsNotPositive(x) == x # NaN /\ x <= 0

\* x || d for a numeric parameter: d when x is undefined, NaN or 0
JsOr(x, d) == IF x = Undefined \/ x = 0 THEN d ELSE x

----------------------------------------------------------------------------
(* Sequence helpers                                                        *)

Range(s) == {s[i] : i \in 1..Len(s)}

IsPrefix(s, t) == Len(s) <= Len(t) /\ SubSeq(t, 1, Len(s)) = s

RECURSIVE Count(_, _)
Count(s, x) == IF s = <<>> THEN 0
               ELSE (IF Head(s) = x THEN 1 ELSE 0) + Count(Tail(s), x)

----------------------------------------------------------------------------
(* Enumerations of rules/interfaces                                        *)

Category == {"TECHNOLOGY", "USER", "MANAGEMENT"}

ActionType == {"DRAW_CARD", "PLAY_CARD", "DISCARD_CARD", "PLACE_CARD",
               "TURN_START", "TURN_END", "MODIFY_RESOURCES", "MODIFY_CHAOS",
               "CHECK_VICTORY", "CHECK_DEFEAT", "PAY_RESOURCES"}

GameEventType == {"CARD_DRAWN", "CARD_PLAYED", "CARD_DISCARDED", "CARD_PLACED",
                  "RESOURCE_CHANGED", "CHAOS_CHANGED", "PLAYER_TURN_STARTED",
                  "PLAYER_TURN_ENDED", "GAME_STARTED", "GAME_ENDED",
                  "VICTORY_ACHIEVED", "DEFEAT_TRIGGERED"}

\* absent card (null / undefined) and absent play effect
NoCard == "none"

NoRule == "none"

NoError == "none"

----------------------------------------------------------------------------
(* Cards (models/card.ts).  The card catalog is supplied by a collaborator; *)
(* the catalog below is one deck content.                                   *)

\* PlayEffect: ruleId and the parameter map (absent keys are Undefined)
Effect(ruleId, amount, delta, count) ==
  [ruleId |-> ruleId,
   params |-> [amount |-> amount, delta |-> delta, count |-> count]]

NoEffect == Effect(NoRule, Undefined, Undefined, Undefined)

Card(categories, situationEffect, playEffect) ==
  [categories |-> categories, situationEffect |-> situationEffect,
   playEffect |-> playEffect]

CardCatalog ==
  [c1 |-> Card({"TECHNOLOGY"}, 2, NoEffect),
   c2 |-> Card({"TECHNOLOGY", "USER"}, 0 - 1,
               Effect("effect-add-resources", 1, Undefined, Undefined)),
   c3 |-> Card({"USER"}, 1,
               Effect("standard-modify-chaos", Undefined, 1, Undefined)),
   c4 |-> Card({"MANAGEMENT"}, 0 - 1,
               Effect("effect-special-ma", Undefined, Undefined, Undefined)),
   c5 |-> Card({"MANAGEMENT"}, 0,
               Effect("standard-modify-resources", Undefined, 2, Undefined)),
   c6 |-> Card({"USER"}, 3,
               Effect("standard-play-card", Undefined, Undefined, Undefined)),
   c7 |-> Card({"TECHNOLOGY"}, 1,
               Effect("effect-draw-cards", Undefined, Undefined, 1)),
   c8 |-> Card({"MANAGEMENT"}, 0 - 3,
               Effect("effect-increase-chaos", 1, Undefined, Undefined))]

CardIds == DOMAIN CardCatalog

hasCategory(card, category) == category \in CardCatalog[card].categories

isResourceCard(card) == CardCatalog[card].situationEffect > 0

isTroubleCard(card) == CardCatalog[card].situationEffect < 0

hasPlayEffect(card) == CardCatalog[card].playEffect.ruleId # NoRule

----------------------------------------------------------------------------
(* Rule registry (rules/registry.ts).  A rule object is named by a string; *)
(* the rule objects of the repository are named by their id.               *)

\* rules/standard/index.ts: the rule set's rules, in rule-set order
standardRules ==
  <<"standard-setup", "standard-turn-start", "standard-turn-end",
    "standard-draw", "standard-play-card", "standard-place-card",
    "standard-discard-card", "standard-modify-resources",
    "standard-pay-resources", "standard-chaos-level-2",
    "standard-chaos-level-3", "standard-modify-chaos",
    "standard-check-victory", "standard-check-defeat">>

\* effects/playEffects: playEffectRules
playEffectRules ==
  {"effect-add-resources", "effect-remove-resources", "effect-increase-chaos",
   "effect-decrease-chaos", "effect-draw-cards"}

\* rule objects a caller of the engine supplies, each with its id: two
\* objects that share an id, and one that carries the id of a standard rule
CustomRules ==
  [customA |-> "custom-rule", customB |-> "custom-rule",
   customSetup |-> "standard-setup"]

\* rule.id
RuleId(rule) == IF rule \in DOMAIN CustomRules THEN CustomRules[rule] ELSE rule

\* a RuleSet object {id, rules}
RuleSet(id, rules) == [id |-> id, rules |-> rules]

\* rules/standard/index.ts: standardRuleSet
standardRuleSet == RuleSet("standard", standardRules)

\* new RuleRegistry(): two empty maps
EmptyRegistry == [rules |-> <<>>, ruleSets |-> <<>>]

\* Map.set(key, value)
MapSet(map, key, value) ==
  [k \in DOMAIN map \cup {key} |-> IF k = key THEN value ELSE map[k]]

\* a registration that replaces the rule registered under the id
registerRuleOverwriting(registry, rule) ==
  [registry |-> [registry EXCEPT !.rules = MapSet(@, RuleId(rule), rule)],
   err |-> NoError]

\* RuleRegistry.registerRule: {the registry's next value, the error thrown}
registerRule(registry, rule) ==
  IF RuleId(rule) \in DOMAIN registry.rules
  THEN [registry |-> registry, err |-> "DuplicateRuleId"]
  ELSE [registry |-> [registry EXCEPT !.rules = MapSet(@, RuleId(rule), rule)],
        err |-> NoError]

\* a rule-set registration without the test of the listed rules
registerRuleSetUnchecked(registry, ruleSet) ==
  IF ruleSet.id \in DOMAIN registry.ruleSets
  THEN [registry |-> registry, err |-> "DuplicateRuleSetId"]
  ELSE [registry |-> [registry EXCEPT !.ruleSets = MapSet(@, ruleSet.id, ruleSet)],
        err |-> NoError]

\* RuleRegistry.registerRuleSet: {the registry's next value, the error thrown}
registerRuleSet(registry, ruleSet) ==
  IF ruleSet.id \in DOMAIN registry.ruleSets
  THEN [registry |-> registry, err |-> "DuplicateRuleSetId"]
  ELSE IF \E i \in 1..Len(ruleSet.rules) :
            RuleId(ruleSet.rules[i]) \notin DOMAIN registry.rules
       THEN [registry |-> registry, err |-> "UnregisteredRule"]
       ELSE [registry |-> [registry EXCEPT !.ruleSets = MapSet(@, ruleSet.id, ruleSet)],
             err |-> NoError]

\* registerRule for each rule of a list in turn; no call throws for the lists
\* of the repository, whose ids are pairwise distinct
RECURSIVE registerRules(_, _)
registerRules(registry, rules) ==
  IF rules = <<>> THEN registry
  ELSE registerRules(registerRule(registry, Head(rules)).registry, Tail(rules))

\* a set as a sequence, in some order
RECURSIVE SetToSeq(_)
SetToSeq(S) ==
  IF S = {} THEN <<>>
  ELSE LET x == CHOOSE x \in S : TRUE IN <<x>> \o SetToSeq(S \ {x})

\* GameEngine.registerDefaultRules on a new RuleRegistry: the standard rules,
\* the standard rule set, then the play-effect rules
registerDefaultRules ==
  registerRules(
    registerRuleSet(registerRules(EmptyRegistry, standardRules), standardRuleSet).registry,
    SetToSeq(playEffectRules))

\* RuleRegistry.getRule: throws for an id that is not registered
getRule(ruleId) ==
  IF ruleId \in DOMAIN ruleRegistry.rules
  THEN [rule |-> ruleRegistry.rules[ruleId], err |-> NoError]
  ELSE [rule |-> NoRule, err |-> "NotFound"]

\* RuleRegistry.getRuleSet: throws for an id that is not registered
getRuleSet(ruleSetId) ==
  IF ruleSetId \in DOMAIN ruleRegistry.ruleSets
  THEN [id |-> ruleRegistry.ruleSets[ruleSetId].id,
        rules |-> ruleRegistry.ruleSets[ruleSetId].rules, err |-> NoError]
  ELSE [id |-> "", rules |-> <<>>, err |-> "NotFound"]

----------------------------------------------------------------------------
(* Player (models/player.ts): a player is [id, hand]                       *)

getHandSize(player) == Len(player.hand)

\* Array.prototype.findIndex over the hand, 0 when the id is not held
HandIndex(hand, cardId) ==
  IF \E i \in 1..Len(hand) : hand[i] = cardId
  THEN CHOOSE i \in 1..Len(hand) :
         hand[i] = cardId /\ \A j \in 1..(i - 1) : hand[j] # cardId
  ELSE 0

\* Player.removeCardFromHand: returns {newPlayer, removedCard}; the receiver
\* keeps its hand
removeCardFromHand(player, cardId) ==
  LET index == HandIndex(player.hand, cardId) IN
  IF index = 0
  THEN [newPlayer |-> player, removedCard |-> NoCard, err |-> "NotFound"]
  ELSE [newPlayer |->
          [player EXCEPT !.hand =
             SubSeq(player.hand, 1, index - 1) \o
             SubSeq(player.hand, index + 1, Len(player.hand))],
        removedCard |-> player.hand[index],
        err |-> NoError]

\* Player.addCardToHand: returns a new Player; the receiver keeps its hand
addCardToHand(player, card) == [player EXCEPT !.hand = Append(player.hand, card)]

----------------------------------------------------------------------------
(* GameState (models/gameState.ts): a state is a record of its fields.     *)
(* A MUTING operation changes the object it is called on, so its operator  *)
(* gives that object's next value; a value-returning operation gives the   *)
(* new GameState and leaves its receiver as it is.                         *)

\* lastChaosModifierPlayer === null
NullIndex == 0 - 2

\* GameState.validateState
validateState(s) ==
  /\ s.currentPlayerIndex >= 0 /\ s.currentPlayerIndex < Len(s.players)
  /\ s.chaosLevel >= 0 /\ s.chaosLevel <= 3
  /\ s.resources >= 0 /\ s.resources <= 3

\* state.players[state.currentPlayerIndex]
currentPlayer(s) == s.players[s.currentPlayerIndex + 1]

Event(type, reason, cardId) == [type |-> type, reason |-> reason, cardId |-> cardId]

\* an advance that stays on the last player instead of wrapping
moveToNextPlayerNoWrap(s) ==
  [s EXCEPT !.currentPlayerIndex =
     IF s.currentPlayerIndex + 1 < Len(s.players)
     THEN s.currentPlayerIndex + 1 ELSE s.currentPlayerIndex]

\* GameState.moveToNextPlayer
moveToNextPlayer(s) ==
  [s EXCEPT !.currentPlayerIndex = (s.currentPlayerIndex + 1) % Len(s.players)]

\* GameState.discardCardsMUTING
discardCardsMUTING(s, cards) == [s EXCEPT !.discard = s.discard \o cards]

\* GameState.discardCards
discardCards(s, cards) == [s EXCEPT !.discard = s.discard \o cards]

\* a placement that stores the card without the hasCategory test
placeCardUnchecked(s, card, category) ==
  [state |-> [s EXCEPT !.workplaces[category] = card],
   previousCard |-> s.workplaces[category], err |-> NoError]

\* GameState.placeCardInWorkplaceMUTING: {the object's next value, returned card}
placeCardInWorkplaceMUTING(s, card, category) ==
  IF ~hasCategory(card, category)
  THEN [state |-> s, previousCard |-> NoCard, err |-> "CategoryMismatch"]
  ELSE [state |-> [s EXCEPT !.workplaces[category] = card],
        previousCard |-> s.workplaces[category], err |-> NoError]

\* GameState.placeCardInWorkplace: {previousCard, state: the new GameState}
placeCardInWorkplace(s, card, category) ==
  IF ~hasCategory(card, category)
  THEN [state |-> s, previousCard |-> NoCard, err |-> "CategoryMismatch"]
  ELSE [state |-> [s EXCEPT !.workplaces[category] = card],
        previousCard |-> s.workplaces[category], err |-> NoError]

\* GameState.moveCardToCompletionLaneMUTING
moveCardToCompletionLaneMUTING(s, card) ==
  [s EXCEPT !.completionLane = Append(s.completionLane, card)]

\* GameState.modifyResourcesMUTING: {the object's next value, actual change}
modifyResourcesMUTING(s, delta) ==
  LET newResources == Clamp03(JsAdd(s.resources, delta)) IN
  [state |-> [s EXCEPT !.resources = newResources],
   actualChange |-> JsSub(newResources, s.resources)]

\* GameState.modifyResources
modifyResources(s, delta) ==
  [s EXCEPT !.resources = Clamp03(JsAdd(s.resources, delta))]

\* GameState.modifyChaosLevelMUTING: {the object's next value, actual change}
modifyChaosLevelMUTING(s, delta, playerIndex) ==
  LET newChaosLevel == Clamp03(JsAdd(s.chaosLevel, delta))
      s1 == [s EXCEPT !.chaosLevel = newChaosLevel]
  IN [state |->
        IF JsNotZero(delta)
        THEN [s1 EXCEPT !.lastChaosModifierPlayer = playerIndex,
                        !.chaosNotModifiedForFullRound = FALSE]
        ELSE s1,
      actualChange |-> JsSub(newChaosLevel, s.chaosLevel)]

\* a chaos change that records the player whatever the delta
modifyChaosLevelRecording(s, delta, playerIndex) ==
  [s EXCEPT !.chaosLevel = Clamp03(JsAdd(s.chaosLevel, delta)),
            !.lastChaosModifierPlayer = playerIndex,
            !.chaosNotModifiedForFullRound = FALSE]

\* GameState.modifyChaosLevel
modifyChaosLevel(s, delta, playerIndex) ==
  modifyChaosLevelMUTING(s, delta, playerIndex).state

\* a history that keeps only the latest event
addEventReplacing(s, event) == [s EXCEPT !.eventHistory = <<event>>]

\* GameState.addEventMUTING
addEventMUTING(s, event) == [s EXCEPT !.eventHistory = Append(s.eventHistory, event)]

\* GameState.addEvent
addEvent(s, event) == [s EXCEPT !.eventHistory = Append(s.eventHistory, event)]

\* GameState.setMetadataMUTING
setMetadataMUTING(s, key, value) == [s EXCEPT !.metadata[key] = value]

\* GameState.setMetadata
setMetadata(s, key, value) == [s EXCEPT !.metadata[key] = value]

\* a setCurrentPlayerIndex that accepts an index up to the number of players
setCurrentPlayerIndexInclusive(s, index) ==
  IF index < 0 \/ index > Len(s.players)
  THEN [state |-> s, err |-> "InvalidIndex"]
  ELSE [state |-> [s EXCEPT !.currentPlayerIndex = index], err |-> NoError]

\* GameState.setCurrentPlayerIndex: throws for an index outside the players
setCurrentPlayerIndex(s, index) ==
  IF index < 0 \/ index >= Len(s.players)
  THEN [state |-> s, err |-> "InvalidIndex"]
  ELSE [state |-> [s EXCEPT !.currentPlayerIndex = index], err |-> NoError]

\* GameState.moveCardToCompletionLane
moveCardToCompletionLane(s, card) ==
  [s EXCEPT !.completionLane = Append(s.completionLane, card)]

\* GameState.setChaosNotModifiedForFullRound
setChaosNotModifiedForFullRound(s, value) ==
  [s EXCEPT !.chaosNotModifiedForFullRound = value]

\* GameState.shuffle: every order of the array is a possible result
shuffle(array) ==
  {[i \in 1..Len(array) |-> array[p[i]]] : p \in Permutations(1..Len(array))}

\* a draw loop that stops at an empty deck and leaves the discard pile alone
drawLoopNoRefill(i, deck, discard, drawnCards) ==
  LET n == IF i < Len(deck) THEN i ELSE Len(deck) IN
  {[deck |-> SubSeq(deck, 1, Len(deck) - n), discard |-> discard,
    drawnCards |-> drawnCards \o [k \in 1..n |-> deck[Len(deck) + 1 - k]]]}

\* the loop of GameState.drawCards with i cards left to draw: an empty deck
\* is refilled with the shuffled discard, and deck.pop() takes the last card
RECURSIVE drawLoop(_, _, _, _)
drawLoop(i, deck, discard, drawnCards) ==
  IF i = 0 \/ (deck = <<>> /\ discard = <<>>)
  THEN {[deck |-> deck, discard |-> discard, drawnCards |-> drawnCards]}
  ELSE IF deck = <<>>
       THEN UNION {drawLoop(i, refilled, <<>>, drawnCards) : refilled \in shuffle(discard)}
       ELSE drawLoop(i - 1, SubSeq(deck, 1, Len(deck) - 1), discard,
                     Append(drawnCards, deck[Len(deck)]))

\* GameState.drawCards: the possible {drawnCards, state}; for count <= 0 the
\* state returned is the receiver itself (same), otherwise a new GameState
drawCards(s, count) ==
  IF count <= 0
  THEN {[drawnCards |-> <<>>, state |-> s, same |-> TRUE]}
  ELSE {[drawnCards |-> r.drawnCards,
         state |-> [s EXCEPT !.deck = r.deck, !.discard = r.discard],
         same |-> FALSE] : r \in drawLoop(count, s.deck, s.discard, <<>>)}

\* GameState.drawCardsMUTING: the cards drawn and the receiver after the call
drawCardsMUTING(s, count) ==
  IF count <= 0
  THEN {[drawnCards |-> <<>>, state |-> s]}
  ELSE {[drawnCards |-> r.drawnCards,
         state |-> [s EXCEPT !.deck = r.deck, !.discard = r.discard]] :
          r \in drawLoop(count, s.deck, s.discard, <<>>)}

----------------------------------------------------------------------------
(* Victory and defeat conditions (models/victoryCondition.ts,              *)
(* models/defeatCondition.ts): ruleId and params                           *)

VictoryCondition(type, ruleId, categoryCount, resourceValue, cardCount, targetChaosLevel) ==
  [type |-> type, ruleId |-> ruleId, categoryCount |-> categoryCount,
   resourceValue |-> resourceValue, cardCount |-> cardCount,
   targetChaosLevel |-> targetChaosLevel]

\* VictoryCondition.createStandard(BalancedProduct), with its categoryCount
BalancedProduct(categoryCount) ==
  VictoryCondition("BALANCED_PRODUCT", "victory-balanced-product",
                   categoryCount, Undefined, Undefined, Undefined)

\* VictoryCondition.createStandard(WorldChangingInnovation)
WorldChangingInnovation(resourceValue, cardCount) ==
  VictoryCondition("WORLD_CHANGING_INNOVATION", "victory-world-changing-innovation",
                   Undefined, resourceValue, cardCount, Undefined)

\* VictoryCondition.createStandard(FireExtinguishing)
FireExtinguishing(targetChaosLevel) ==
  VictoryCondition("FIRE_EXTINGUISHING", "victory-fire-extinguishing",
                   Undefined, Undefined, Undefined, targetChaosLevel)

\* VictoryCondition.createStandard(Custom, ...): its rule is not registered
CustomVictory ==
  VictoryCondition("CUSTOM", "victory-custom",
                   Undefined, Undefined, Undefined, Undefined)

DefeatCondition(type, ruleId) == [type |-> type, ruleId |-> ruleId]

\* the three conditions of DefeatCondition.createStandard
standardDefeatConditions ==
  <<DefeatCondition("DECK_DEPLETION", "defeat-deck-depletion"),
    DefeatCondition("CHAOS_OVERFLOW", "defeat-chaos-overflow"),
    DefeatCondition("STAGNATION_PENALTY", "defeat-stagnation-penalty")>>

----------------------------------------------------------------------------
(* GameContext and the outcome of rule.apply                               *)

\* effectParams of a context that has none: every key reads as undefined
NoParams == [amount |-> Undefined, delta |-> Undefined, count |-> Undefined]

\* Action {type, payload}; an absent payload key is NoCard / "none"
Action(type, cardId, category, pushOutOption) ==
  [type |-> type, cardId |-> cardId, category |-> category,
   pushOutOption |-> pushOutOption]

\* a context whose currentCard is the card named by the action, held or not
ContextAnyCard(s, action) ==
  [action |-> action,
   currentCard |->
     IF action.cardId # NoCard
        /\ action.type \in {"PLAY_CARD", "PLACE_CARD", "DISCARD_CARD"}
     THEN action.cardId ELSE NoCard,
   hasEffectParams |-> FALSE,
   effectParams |-> NoParams,
   preventChaosRecursion |-> FALSE]

\* the context GameEngine.executeAction builds
Context(s, action) ==
  [action |-> action,
   currentCard |->
     IF action.cardId # NoCard
        /\ action.type \in {"PLAY_CARD", "PLACE_CARD", "DISCARD_CARD"}
        /\ HandIndex(currentPlayer(s).hand, action.cardId) # 0
     THEN action.cardId ELSE NoCard,
   hasEffectParams |-> FALSE,
   effectParams |-> NoParams,
   preventChaosRecursion |-> FALSE]

\* rule.apply returned: the state it left, the deepest nesting of apply calls
\* it reached and the number of ChaosLevel3Rule.apply calls it made
Ok(s, d) == [s |-> s, err |-> NoError, depth |-> d, c3 |-> 0]

\* rule.apply threw: the state is as the rule left it when it threw
Throw(s, err, d) == [s |-> s, err |-> err, depth |-> d, c3 |-> 0]

----------------------------------------------------------------------------
(* The rules.  apply(ruleId, s, ctx, d) is rule.apply(context) of the rule *)
(* registered under ruleId, entered at nesting depth d on state s.         *)

RECURSIVE apply(_, _, _, _)

\* StandardSetupRule.isApplicable
StandardSetupRule_isApplicable(s, ctx) ==
  ctx.action.type = "TURN_START" /\ Len(s.eventHistory) = 0

\* StandardSetupRule.apply: shuffleDeck permutes the copy the deck getter
\* returned; for the first player state.drawCards(3) gives {drawnCards, state},
\* which has no forEach
StandardSetupRule_apply(s, ctx, d) == Throw(s, "TypeError", d)

\* StandardTurnStartRule.isApplicable
StandardTurnStartRule_isApplicable(s, ctx) == ctx.action.type = "TURN_START"

\* StandardTurnStartRule.apply: the GameState that state.addEvent returns is
\* dropped
StandardTurnStartRule_apply(s, ctx, d) ==
  LET dropped == addEvent(s, Event("PLAYER_TURN_STARTED", "", NoCard)) IN
  Ok(s, d)

\* StandardTurnEndRule.isApplicable
StandardTurnEndRule_isApplicable(s, ctx) == ctx.action.type = "TURN_END"

\* StandardTurnEndRule.apply: state.addEvent and state.moveToNextPlayer return
\* new GameStates; nextPlayerIndex is a GameState, never === 0, so
\* checkFullRoundCompleted is not called
StandardTurnEndRule_apply(s, ctx, d) ==
  LET dropped == addEvent(s, Event("PLAYER_TURN_ENDED", "", NoCard))
      nextPlayerIndex == moveToNextPlayer(s)
  IN Ok(s, d)

\* StandardDrawRule.isApplicable
StandardDrawRule_isApplicable(s, ctx) ==
  ctx.action.type = "TURN_END" /\ getHandSize(currentPlayer(s)) < 3

\* StandardDrawRule.apply: state.drawCards(n) gives {drawnCards, state}, which
\* has no forEach
StandardDrawRule_apply(s, ctx, d) ==
  LET cardsToDrawCount == 3 - getHandSize(currentPlayer(s)) IN
  IF cardsToDrawCount <= 0 THEN Ok(s, d) ELSE Throw(s, "TypeError", d)

\* PlayCardRule.isApplicable
PlayCardRule_isApplicable(s, ctx) ==
  ctx.action.type = "PLAY_CARD" /\ ctx.currentCard # NoCard

\* PlayCardRule.apply: the results of currentPlayer.removeCardFromHand and of
\* state.addEvent are dropped; the effect rule is applied with effectParams;
\* the card is pushed onto discard
PlayCardRule_apply(s, ctx, d) ==
  IF ctx.currentCard = NoCard THEN Ok(s, d)
  ELSE
    LET removed == removeCardFromHand(currentPlayer(s), ctx.action.cardId)
        dropped == addEvent(s, Event("CARD_PLAYED", "", ctx.currentCard))
        playEffect == CardCatalog[ctx.currentCard].playEffect
    IN
    IF removed.err # NoError THEN Throw(s, removed.err, d)
    ELSE
      LET r == IF playEffect.ruleId = NoRule THEN Ok(s, d)
               ELSE IF getRule(playEffect.ruleId).err # NoError
                    THEN Throw(s, getRule(playEffect.ruleId).err, d)
                    ELSE apply(playEffect.ruleId, s,
                               [ctx EXCEPT !.hasEffectParams = TRUE,
                                           !.effectParams = playEffect.params],
                               d + 1)
      IN IF r.err # NoError THEN r
         ELSE [r EXCEPT !.s = discardCardsMUTING(r.s, <<ctx.currentCard>>)]

\* PlaceCardRule.isApplicable
PlaceCardRule_isApplicable(s, ctx) ==
  ctx.action.type = "PLACE_CARD" /\ ctx.currentCard # NoCard

\* PlaceCardRule.validateInput: rejects a context that has a currentCard
PlaceCardRule_validateInput(s, ctx) ==
  IF ctx.currentCard # NoCard THEN "InvalidInput" ELSE NoError

\* PlaceCardRule.apply: after validateInput, removedCard is the
\* {newPlayer, removedCard} object of removeCardFromHand, and
\* placeCardInWorkplaceMUTING calls hasCategory on it; nothing after that call
\* is reached
PlaceCardRule_apply(s, ctx, d) ==
  IF PlaceCardRule_validateInput(s, ctx) # NoError
  THEN Throw(s, PlaceCardRule_validateInput(s, ctx), d)
  ELSE
    LET removedCard == removeCardFromHand(currentPlayer(s), ctx.action.cardId) IN
    IF removedCard.err # NoError THEN Throw(s, removedCard.err, d)
    ELSE Throw(s, "TypeError", d)

\* DiscardCardRule.isApplicable
DiscardCardRule_isApplicable(s, ctx) ==
  ctx.action.type = "DISCARD_CARD" /\ ctx.currentCard # NoCard

\* DiscardCardRule.apply: the results of currentPlayer.removeCardFromHand and
\* of state.addEvent are dropped; the card is pushed onto discard
DiscardCardRule_apply(s, ctx, d) ==
  IF ctx.currentCard = NoCard THEN Ok(s, d)
  ELSE
    LET removed == removeCardFromHand(currentPlayer(s), ctx.action.cardId)
        dropped == addEvent(discardCardsMUTING(s, <<ctx.currentCard>>),
                            Event("CARD_DISCARDED", "", ctx.currentCard))
    IN IF removed.err # NoError THEN Throw(s, removed.err, d)
       ELSE Ok(discardCardsMUTING(s, <<ctx.currentCard>>), d)

\* ModifyResourcesRule.isApplicable
ModifyResourcesRule_isApplicable(s, ctx) == ctx.action.type = "MODIFY_RESOURCES"

\* ModifyResourcesRule.apply: delta is metadata.effectParams?.delta
ModifyResourcesRule_apply(s, ctx, d) ==
  LET delta == ctx.effectParams.delta
      m == modifyResourcesMUTING(s, delta)
  IN Ok(addEventMUTING(m.state, Event("RESOURCE_CHANGED", "card-effect", NoCard)), d)

\* PayResourcesRule.isApplicable
PayResourcesRule_isApplicable(s, ctx) == ctx.action.type = "PAY_RESOURCES"

\* PayResourcesRule.apply: amount is metadata.effectParams?.amount
PayResourcesRule_apply(s, ctx, d) ==
  LET amount == ctx.effectParams.amount
      m == modifyResourcesMUTING(s, JsNeg(amount))
  IN Ok(addEventMUTING(m.state, Event("RESOURCE_CHANGED", "payment", NoCard)), d)

\* ChaosLevel2Rule.isApplicable
ChaosLevel2Rule_isApplicable(s, ctx) ==
  s.chaosLevel = 2 /\ ctx.action.type \in {"PLAY_CARD", "PLACE_CARD", "DISCARD_CARD"}

\* ChaosLevel2Rule.apply: drawnCards is the {drawnCards, state} object of
\* state.drawCards(1); its length is not 0, its [0] is undefined, the Player
\* that addCardToHand returns is dropped, and reading drawnCard.id throws
ChaosLevel2Rule_apply(s, ctx, d) ==
  LET dropped == addCardToHand(currentPlayer(s), NoCard) IN
  Throw(s, "TypeError", d)

\* ChaosLevel3Rule.isApplicable
ChaosLevel3Rule_isApplicable(s, ctx) ==
  /\ s.chaosLevel = 3
  /\ ctx.action.type \in {"PLAY_CARD", "PLACE_CARD", "DISCARD_CARD"}
  /\ ~ctx.preventChaosRecursion

\* ChaosLevel3Rule.apply: drawnCards is the {drawnCards, state} object of
\* state.drawCards(2), which for-of cannot iterate
ChaosLevel3Rule_apply(s, ctx, d) ==
  [s |-> s, err |-> "TypeError", depth |-> d, c3 |-> 1]

\* ModifyChaosLevelRule.isApplicable
ModifyChaosLevelRule_isApplicable(s, ctx) == ctx.action.type = "MODIFY_CHAOS"

\* ModifyChaosLevelRule.apply: delta is metadata.effectParams?.delta
ModifyChaosLevelRule_apply(s, ctx, d) ==
  LET delta == ctx.effectParams.delta
      oldChaosLevel == s.chaosLevel
      m == modifyChaosLevelMUTING(s, delta, s.currentPlayerIndex)
      s1 == addEventMUTING(setMetadataMUTING(m.state, "roundsSinceChaosModified", 0),
                           Event("CHAOS_CHANGED", "card-effect", NoCard))
  IN IF JsNotZero(m.actualChange)
     THEN IF oldChaosLevel = 3 /\ JsPositive(delta)
          THEN Ok(addEventMUTING(s1, Event("DEFEAT_TRIGGERED", "chaos-overflow", NoCard)), d)
          ELSE Ok(s1, d)
     ELSE Ok(m.state, d)

\* CheckVictoryRule.checkBalancedProductVictory
checkBalancedProductVictory(s, params) ==
  LET requiredCount == JsOr(params.categoryCount, 2)
      categoryCounts(category) ==
        Cardinality({i \in 1..Len(s.completionLane) :
                       hasCategory(s.completionLane[i], category)})
  IN \A category \in Category : categoryCounts(category) >= requiredCount

\* CheckVictoryRule.checkWorldChangingInnovationVictory
checkWorldChangingInnovationVictory(s, params) ==
  LET resourceValue == JsOr(params.resourceValue, 3)
      requiredCount == JsOr(params.cardCount, 5)
      highResourceCards ==
        {i \in 1..Len(s.completionLane) :
           CardCatalog[s.completionLane[i]].situationEffect = resourceValue}
  IN Cardinality(highResourceCards) >= requiredCount

\* CheckVictoryRule.checkFireExtinguishingVictory
checkFireExtinguishingVictory(s, params) ==
  s.chaosLevel = JsOr(params.targetChaosLevel, 0)

\* CheckVictoryRule.isApplicable
CheckVictoryRule_isApplicable(s, ctx) ==
  ctx.action.type \in {"CHECK_VICTORY", "TURN_END"}

\* CheckVictoryRule.apply, the loop from the i-th victory condition on: a
\* condition of another type applies the rule registered under its ruleId,
\* which leaves victoryAchieved false
RECURSIVE CheckVictoryRule_loop(_, _, _, _)
CheckVictoryRule_loop(i, s, ctx, d) ==
  IF i > Len(s.victoryConditions) THEN Ok(s, d)
  ELSE
    LET condition == s.victoryConditions[i]
        standard == condition.type \in {"BALANCED_PRODUCT",
                                        "WORLD_CHANGING_INNOVATION",
                                        "FIRE_EXTINGUISHING"}
        victoryAchieved ==
          CASE condition.type = "BALANCED_PRODUCT" ->
                 checkBalancedProductVictory(s, condition)
            [] condition.type = "WORLD_CHANGING_INNOVATION" ->
                 checkWorldChangingInnovationVictory(s, condition)
            [] condition.type = "FIRE_EXTINGUISHING" ->
                 checkFireExtinguishingVictory(s, condition)
            [] OTHER -> FALSE
    IN
    IF standard
    THEN IF victoryAchieved
         THEN Ok(setMetadataMUTING(
                   setMetadataMUTING(
                     addEventMUTING(s, Event("VICTORY_ACHIEVED", condition.type, NoCard)),
                     "gameOver", TRUE),
                   "victoryAchieved", TRUE), d)
         ELSE CheckVictoryRule_loop(i + 1, s, ctx, d)
    ELSE IF getRule(condition.ruleId).err # NoError
         THEN Throw(s, getRule(condition.ruleId).err, d)
         ELSE LET r == apply(condition.ruleId, s, ctx, d + 1) IN
              IF r.err # NoError THEN r
              ELSE LET rest == CheckVictoryRule_loop(i + 1, r.s, ctx, d) IN
                   [rest EXCEPT !.depth = IF r.depth > rest.depth THEN r.depth ELSE rest.depth,
                                !.c3 = r.c3 + rest.c3]

\* a victory check that does not stop at the first satisfied condition
CheckVictoryRule_applyAll(s, ctx, d) ==
  LET RECURSIVE loop(_, _)
      loop(i, st) ==
        IF i > Len(s.victoryConditions) THEN st
        ELSE IF CheckVictoryRule_loop(1, [s EXCEPT !.victoryConditions = <<s.victoryConditions[i]>>],
                                      ctx, d).s.metadata.victoryAchieved
             THEN loop(i + 1,
                       setMetadataMUTING(
                         setMetadataMUTING(
                           addEventMUTING(st, Event("VICTORY_ACHIEVED",
                                                    s.victoryConditions[i].type, NoCard)),
                           "gameOver", TRUE),
                         "victoryAchieved", TRUE))
             ELSE loop(i + 1, st)
  IN Ok(loop(1, s), d)

\* CheckVictoryRule.apply
CheckVictoryRule_apply(s, ctx, d) == CheckVictoryRule_loop(1, s, ctx, d)

\* CheckDefeatRule.isApplicable
CheckDefeatRule_isApplicable(s, ctx) ==
  ctx.action.type \in {"CHECK_DEFEAT", "TURN_END"}

\* CheckDefeatRule.apply, the loop from the i-th defeat condition on
RECURSIVE CheckDefeatRule_loop(_, _, _, _)
CheckDefeatRule_loop(i, s, ctx, d) ==
  IF i > Len(s.defeatConditions) THEN Ok(s, d)
  ELSE
    LET condition == s.defeatConditions[i]
        standard == condition.type \in {"DECK_DEPLETION", "CHAOS_OVERFLOW",
                                        "STAGNATION_PENALTY"}
        defeatTriggered ==
          CASE condition.type = "DECK_DEPLETION" ->
                 Len(s.deck) = 0 /\ Len(s.discard) = 0
            [] condition.type = "CHAOS_OVERFLOW" ->
                 \E k \in 1..Len(s.eventHistory) :
                   /\ s.eventHistory[k].type = "DEFEAT_TRIGGERED"
                   /\ s.eventHistory[k].reason = "chaos-overflow"
            [] condition.type = "STAGNATION_PENALTY" ->
                 s.chaosNotModifiedForFullRound /\ s.chaosLevel >= 3
            [] OTHER -> FALSE
    IN
    IF standard
    THEN IF defeatTriggered
         THEN Ok(setMetadataMUTING(
                   setMetadataMUTING(
                     addEventMUTING(s, Event("DEFEAT_TRIGGERED", condition.type, NoCard)),
                     "gameOver", TRUE),
                   "defeatTriggered", TRUE), d)
         ELSE CheckDefeatRule_loop(i + 1, s, ctx, d)
    ELSE IF getRule(condition.ruleId).err # NoError
         THEN Throw(s, getRule(condition.ruleId).err, d)
         ELSE LET r == apply(condition.ruleId, s, ctx, d + 1) IN
              IF r.err # NoError THEN r
              ELSE LET rest == CheckDefeatRule_loop(i + 1, r.s, ctx, d) IN
                   [rest EXCEPT !.depth = IF r.depth > rest.depth THEN r.depth ELSE rest.depth,
                                !.c3 = r.c3 + rest.c3]

\* CheckDefeatRule.apply
CheckDefeatRule_apply(s, ctx, d) == CheckDefeatRule_loop(1, s, ctx, d)

\* AddResourcesEffectRule.apply and RemoveResourcesEffectRule.apply: they
\* differ in the payload of the action they build, which ModifyResourcesRule
\* does not read; the context passed on keeps its effectParams
ResourcesEffectRule_apply(s, ctx, d) ==
  IF ~ctx.hasEffectParams THEN Throw(s, "TypeError", d)
  ELSE IF JsNotPositive(ctx.effectParams.amount) THEN Ok(s, d)
  ELSE IF getRule("standard-modify-resources").err # NoError
       THEN Throw(s, getRule("standard-modify-resources").err, d)
       ELSE apply("standard-modify-resources", s,
                  [ctx EXCEPT !.action.type = "MODIFY_RESOURCES"], d + 1)

\* IncreaseChaosEffectRule.apply and DecreaseChaosEffectRule.apply: they
\* differ in the payload of the action they build, which ModifyChaosLevelRule
\* does not read; the context passed on keeps its effectParams
ChaosEffectRule_apply(s, ctx, d) ==
  IF ~ctx.hasEffectParams THEN Throw(s, "TypeError", d)
  ELSE IF JsNotPositive(ctx.effectParams.amount) THEN Ok(s, d)
  ELSE IF getRule("standard-modify-chaos").err # NoError
       THEN Throw(s, getRule("standard-modify-chaos").err, d)
       ELSE apply("standard-modify-chaos", s,
                  [ctx EXCEPT !.action.type = "MODIFY_CHAOS"], d + 1)

\* DrawCardsEffectRule.apply: state.drawCards(count) gives
\* {drawnCards, state}, which has no forEach
DrawCardsEffectRule_apply(s, ctx, d) ==
  IF ~ctx.hasEffectParams THEN Throw(s, "TypeError", d)
  ELSE IF JsNotPositive(ctx.effectParams.count) THEN Ok(s, d)
  ELSE Throw(s, "TypeError", d)

\* isApplicable of a rule object supplied by a caller of the engine: in the
\* model a rule for TurnStart
CustomRule_isApplicable(s, ctx) == ctx.action.type = "TURN_START"

\* apply of a rule object supplied by a caller of the engine: in the model a
\* rule that leaves the state as it is
CustomRule_apply(s, ctx, d) == Ok(s, d)

\* rule.apply(context) of the rule registered under ruleId; a call nested
\* deeper than the stack allows throws RangeError
apply(ruleId, s, ctx, d) ==
  IF d > MaxCallDepth THEN Throw(s, "RangeError", d)
  ELSE
    CASE ruleId = "standard-setup" -> StandardSetupRule_apply(s, ctx, d)
      [] ruleId = "standard-turn-start" -> StandardTurnStartRule_apply(s, ctx, d)
      [] ruleId = "standard-turn-end" -> StandardTurnEndRule_apply(s, ctx, d)
      [] ruleId = "standard-draw" -> StandardDrawRule_apply(s, ctx, d)
      [] ruleId = "standard-play-card" -> PlayCardRule_apply(s, ctx, d)
      [] ruleId = "standard-place-card" -> PlaceCardRule_apply(s, ctx, d)
      [] ruleId = "standard-discard-card" -> DiscardCardRule_apply(s, ctx, d)
      [] ruleId = "standard-modify-resources" -> ModifyResourcesRule_apply(s, ctx, d)
      [] ruleId = "standard-pay-resources" -> PayResourcesRule_apply(s, ctx, d)
      [] ruleId = "standard-chaos-level-2" -> ChaosLevel2Rule_apply(s, ctx, d)
      [] ruleId = "standard-chaos-level-3" -> ChaosLevel3Rule_apply(s, ctx, d)
      [] ruleId = "standard-modify-chaos" -> ModifyChaosLevelRule_apply(s, ctx, d)
      [] ruleId = "standard-check-victory" -> CheckVictoryRule_apply(s, ctx, d)
      [] ruleId = "standard-check-defeat" -> CheckDefeatRule_apply(s, ctx, d)
      [] ruleId \in {"effect-add-resources", "effect-remove-resources"} ->
           ResourcesEffectRule_apply(s, ctx, d)
      [] ruleId \in {"effect-increase-chaos", "effect-decrease-chaos"} ->
           ChaosEffectRule_apply(s, ctx, d)
      [] ruleId = "effect-draw-cards" -> DrawCardsEffectRule_apply(s, ctx, d)
      [] ruleId \in DOMAIN CustomRules -> CustomRule_apply(s, ctx, d)

\* rule.isApplicable(context) of a rule of the standard rule set
isApplicable(ruleId, s, ctx) ==
  CASE ruleId = "standard-setup" -> StandardSetupRule_isApplicable(s, ctx)
    [] ruleId = "standard-turn-start" -> StandardTurnStartRule_isApplicable(s, ctx)
    [] ruleId = "standard-turn-end" -> StandardTurnEndRule_isApplicable(s, ctx)
    [] ruleId = "standard-draw" -> StandardDrawRule_isApplicable(s, ctx)
    [] ruleId = "standard-play-card" -> PlayCardRule_isApplicable(s, ctx)
    [] ruleId = "standard-place-card" -> PlaceCardRule_isApplicable(s, ctx)
    [] ruleId = "standard-discard-card" -> DiscardCardRule_isApplicable(s, ctx)
    [] ruleId = "standard-modify-resources" -> ModifyResourcesRule_isApplicable(s, ctx)
    [] ruleId = "standard-pay-resources" -> PayResourcesRule_isApplicable(s, ctx)
    [] ruleId = "standard-chaos-level-2" -> ChaosLevel2Rule_isApplicable(s, ctx)
    [] ruleId = "standard-chaos-level-3" -> ChaosLevel3Rule_isApplicable(s, ctx)
    [] ruleId = "standard-modify-chaos" -> ModifyChaosLevelRule_isApplicable(s, ctx)
    [] ruleId = "standard-check-victory" -> CheckVictoryRule_isApplicable(s, ctx)
    [] ruleId = "standard-check-defeat" -> CheckDefeatRule_isApplicable(s, ctx)
    [] ruleId \in DOMAIN CustomRules -> CustomRule_isApplicable(s, ctx)

----------------------------------------------------------------------------
(* GameEngine (core/engine.ts)                                             *)

\* the rules of a rule set whose isApplicable holds in the context, in
\* rule-set order (activeRuleSet.rules.filter)
applicableRules(rules, s, ctx) ==
  SelectSeq(rules, LAMBDA ruleId : isApplicable(ruleId, s, ctx))

\* a dispatch loop that walks the whole rule set and tests isApplicable of each
\* rule against the state the rules before it left
applyRulesRefiltering(rules, s, ctx) ==
  LET RECURSIVE loop(_, _)
      loop(i, st) ==
        IF i > Len(standardRules)
        THEN [s |-> st, err |-> NoError, applied |-> <<>>, depth |-> 0, c3 |-> 0]
        ELSE IF ~isApplicable(standardRules[i], st, ctx) THEN loop(i + 1, st)
        ELSE LET r == apply(standardRules[i], st, ctx, 1) IN
             IF r.err # NoError
             THEN [s |-> r.s, err |-> r.err, applied |-> <<standardRules[i]>>,
                   depth |-> r.depth, c3 |-> r.c3]
             ELSE LET rest == loop(i + 1, r.s) IN
                  [rest EXCEPT !.applied = <<standardRules[i]>> \o rest.applied]
  IN loop(1, s)

\* the loop over applicableRules: each rule is applied in turn to the state
\* the rules before it left; an exception ends the loop.  applied lists the
\* rules whose apply was entered.
RECURSIVE applyRules(_, _, _)
applyRules(rules, s, ctx) ==
  IF rules = <<>>
  THEN [s |-> s, err |-> NoError, applied |-> <<>>, depth |-> 0, c3 |-> 0]
  ELSE
    LET r == apply(Head(rules), s, ctx, 1) IN
    IF r.err # NoError
    THEN [s |-> r.s, err |-> r.err, applied |-> <<Head(rules)>>,
          depth |-> r.depth, c3 |-> r.c3]
    ELSE
      LET rest == applyRules(Tail(rules), r.s, ctx) IN
      [s |-> rest.s, err |-> rest.err,
       applied |-> <<Head(rules)>> \o rest.applied,
       depth |-> IF r.depth > rest.depth THEN r.depth ELSE rest.depth,
       c3 |-> r.c3 + rest.c3]

\* GameEngine.emitEvent: one call of each listener registered for the type
emitEvent(listeners, event) ==
  IF event.type \in DOMAIN listeners
  THEN [k \in 1..listeners[event.type] |-> event]
  ELSE <<>>

\* this.state.eventHistory.forEach(emitEvent): the deliveries, in order
RECURSIVE emitAll(_, _)
emitAll(listeners, events) ==
  IF events = <<>> THEN <<>>
  ELSE emitEvent(listeners, Head(events)) \o emitAll(listeners, Tail(events))

\* event types for which listeners are registered in the model
ListenTypes == {"RESOURCE_CHANGED"}

\* a card id the current player does not hold
NotHeld(s) == CHOOSE cardId \in CardIds : HandIndex(currentPlayer(s).hand, cardId) = 0

\* actions given to executeAction in state s: every action type without a
\* card, the card actions for each held card (a PlaceCard names a
\* pushOutOption when the addressed slot is occupied), and PlayCard,
\* PlaceCard (into TECHNOLOGY) and DiscardCard for a card not held
Actions(s) ==
  LET held == Range(currentPlayer(s).hand) IN
  {Action(type, NoCard, "none", "none") :
     type \in {"TURN_START", "TURN_END", "MODIFY_RESOURCES", "MODIFY_CHAOS",
               "PAY_RESOURCES", "CHECK_VICTORY", "CHECK_DEFEAT"}}
  \cup {Action(type, cardId, "none", "none") :
          type \in {"PLAY_CARD", "DISCARD_CARD"}, cardId \in held}
  \cup {Action(type, NotHeld(s), "none", "none") : type \in {"PLAY_CARD", "DISCARD_CARD"}}
  \cup {Action("PLACE_CARD", NotHeld(s), "TECHNOLOGY", "none")}
  \cup {Action("PLACE_CARD", cardId, category, "none") :
          cardId \in held, category \in {c \in Category : s.workplaces[c] = NoCard}}
  \cup {Action("PLACE_CARD", cardId, category, pushOutOption) :
          cardId \in held, category \in {c \in Category : s.workplaces[c] # NoCard},
          pushOutOption \in {"lane", "discard"}}

\* GameEngine.executeAction
ExecuteAction(action) ==
  /\ Len(state.discard) + Len(state.eventHistory) < MaxLog
  /\ LET context == Context(state, action)
         activeRuleSetId == IF state.metadata.activeRuleSetId = ""
                            THEN "standard"
                            ELSE state.metadata.activeRuleSetId
         activeRuleSet == getRuleSet(activeRuleSetId)
         applicable == applicableRules(activeRuleSet.rules, state, context)
         run == IF activeRuleSet.err # NoError
                THEN [s |-> state, err |-> activeRuleSet.err, applied |-> <<>>,
                      depth |-> 0, c3 |-> 0]
                ELSE applyRules(applicable, state, context)
     IN /\ state' = run.s
        /\ last' = [op |-> "executeAction",
                    action |-> action,
                    applied |-> run.applied,
                    error |-> run.err,
                    delivered |-> IF run.err = NoError
                                  THEN emitAll(eventListeners, run.s.eventHistory)
                                  ELSE <<>>,
                    depth |-> run.depth,
                    c3 |-> run.c3]
        /\ UNCHANGED <<eventListeners, ruleRegistry, heap>>

\* GameEngine.isGameOver, isVictoryAchieved, isDefeatTriggered: an unset
\* metadata key reads as false
isGameOver(s) == s.metadata.gameOver

isVictoryAchieved(s) == s.metadata.victoryAchieved

isDefeatTriggered(s) == s.metadata.defeatTriggered

\* number of listeners registered for the given types
RECURSIVE ListenerCount(_, _)
ListenerCount(listeners, types) ==
  IF types = {} THEN 0
  ELSE LET t == CHOOSE t \in types : TRUE IN
       listeners[t] + ListenerCount(listeners, types \ {t})

\* GameEngine.addEventListener
AddEventListener(eventType) ==
  /\ ListenerCount(eventListeners, ListenTypes) < MaxListeners
  /\ eventListeners' = [eventListeners EXCEPT ![eventType] = @ + 1]
  /\ last' = [last EXCEPT !.op = "addEventListener"]
  /\ UNCHANGED <<state, ruleRegistry, heap>>

----------------------------------------------------------------------------
(* Initial states: GameState objects as the constructor accepts them, each *)
(* card of the catalog in one location                                     *)

Player(id, hand) == [id |-> id, hand |-> hand]

\* metadata keys of a Player
MetadataKeys == {"ready"}

\* Player constructor: the hand array and the metadata object passed in are
\* stored as they are, not copied; origin is the Player whose method built
\* this one (0 for a Player built by the caller)
NewPlayerObject(id, hand, metadata, origin) ==
  [id |-> id, hand |-> hand, metadata |-> metadata, origin |-> origin]

\* the heap after new Player({id: 'p0', hand: [c1], metadata: {}})
NewHeap ==
  [players |-> <<NewPlayerObject("p0", 1, 1, 0)>>,
   arrays |-> <<<<"c1">>>>,
   objects |-> <<[key \in MetadataKeys |-> Undefined]>>]

NoWorkplaces == [category \in Category |-> NoCard]

\* metadata of a new GameState: no key is set
NoMetadata ==
  [gameOver |-> FALSE, victoryAchieved |-> FALSE, defeatTriggered |-> FALSE,
   roundsSinceChaosModified |-> Undefined, activeRuleSetId |-> ""]

GameState(players, currentPlayerIndex, deck, discard, workplaces, completionLane, chaosLevel, resources, victoryConditions, defeatConditions) ==
  [players |-> players, currentPlayerIndex |-> currentPlayerIndex,
   deck |-> deck, discard |-> discard, workplaces |-> workplaces,
   completionLane |-> completionLane, chaosLevel |-> chaosLevel,
   resources |-> resources, victoryConditions |-> victoryConditions,
   defeatConditions |-> defeatConditions,
   lastChaosModifierPlayer |-> NullIndex,
   chaosNotModifiedForFullRound |-> FALSE,
   eventHistory |-> <<>>, metadata |-> NoMetadata]

\* the games the model starts from
InitialStates ==
  {GameState(<<Player("p0", <<"c3", "c4", "c5">>), Player("p1", <<"c1", "c2", "c6">>)>>,
             1, <<"c7", "c8">>, <<>>, NoWorkplaces, <<>>, 1, 1,
             <<FireExtinguishing(0)>>, standardDefeatConditions)}
  \cup
  {GameState(<<Player("p0", <<"c1", "c2">>), Player("p1", <<"c3", "c8">>)>>,
             1, <<"c4", "c6", "c7">>, <<>>, [NoWorkplaces EXCEPT !["MANAGEMENT"] = "c5"], <<>>,
             3, 2, <<BalancedProduct(1), CustomVictory>>, <<>>)}
  \cup
  {GameState(<<Player("p0", <<"c3", "c4">>)>>,
             0, <<>>, <<>>,
             [NoWorkplaces EXCEPT !["TECHNOLOGY"] = "c1", !["USER"] = "c6"],
             <<"c2", "c5", "c7", "c8">>, 1, 3,
             <<WorldChangingInnovation(3, 5), BalancedProduct(1), FireExtinguishing(1)>>,
             standardDefeatConditions)}
  \cup
  {GameState(<<Player("p0", <<>>), Player("p1", <<>>)>>,
             0, <<"c1", "c2", "c3", "c4", "c5", "c6", "c7", "c8">>, <<>>,
             NoWorkplaces, <<>>, 0, 0,
             <<FireExtinguishing(0)>>, standardDefeatConditions)}
  \cup
  {GameState(<<Player("p0", <<"c7", "c5", "c4">>)>>,
             0, <<"c1", "c2", "c3">>, <<>>,
             [NoWorkplaces EXCEPT !["USER"] = "c6"], <<"c8">>, 2, 1,
             <<FireExtinguishing(2)>>, standardDefeatConditions)}
  \cup
  {GameState(<<Player("p0", <<"c1", "c2", "c4">>)>>,
             0, <<"c5", "c7">>, <<"c3">>, NoWorkplaces, <<"c6", "c8">>, 3, 0,
             <<>>, standardDefeatConditions)}
  \cup
  {[GameState(<<Player("p0", <<"c1", "c4", "c5">>)>>,
              0, <<>>, <<>>, NoWorkplaces, <<"c2", "c3", "c6", "c7", "c8">>, 0, 0,
              <<FireExtinguishing(0)>>, standardDefeatConditions)
      EXCEPT !.eventHistory = <<Event("PLAYER_TURN_STARTED", "", NoCard)>>]}

Init ==
  /\ state \in InitialStates
  /\ validateState(state)
  /\ eventListeners = [t \in ListenTypes |-> 0]
  /\ ruleRegistry = registerDefaultRules
  /\ heap = NewHeap
  /\ last = [op |-> "new", action |-> Action("none", NoCard, "none", "none"),
             applied |-> <<>>, error |-> NoError, delivered |-> <<>>,
             depth |-> 0, c3 |-> 0]

Next ==
  \/ \E action \in Actions(state) : ExecuteAction(action)
  \/ \E eventType \in ListenTypes : AddEventListener(eventType)

Spec == Init /\ [][Next]_vars

----------------------------------------------------------------------------
(* The GameState object driven through its own methods, as the rules and   *)
(* the tests of the repository call them, without the engine               *)

\* record of a GameState method call
Called(op, cardId, category, err) ==
  [op |-> op, action |-> Action("none", cardId, category, "none"),
   applied |-> <<>>, error |-> err, delivered |-> <<>>, depth |-> 0, c3 |-> 0]

\* state.placeCardInWorkplaceMUTING(card, category): a throw leaves the object
PlaceCardInWorkplaceMUTING(card, category) ==
  LET r == placeCardInWorkplaceMUTING(state, card, category) IN
  /\ state' = r.state
  /\ last' = Called("placeCardInWorkplaceMUTING", card, category, r.err)
  /\ UNCHANGED <<eventListeners, ruleRegistry, heap>>

\* state = state.placeCardInWorkplace(card, category).state
PlaceCardInWorkplace(card, category) ==
  LET r == placeCardInWorkplace(state, card, category) IN
  /\ state' = r.state
  /\ last' = Called("placeCardInWorkplace", card, category, r.err)
  /\ UNCHANGED <<eventListeners, ruleRegistry, heap>>

GameStateNext ==
  \/ \E card \in CardIds, category \in Category : PlaceCardInWorkplaceMUTING(card, category)
  \/ \E card \in CardIds, category \in Category : PlaceCardInWorkplace(card, category)

SpecGameState == Init /\ [][GameStateNext]_vars

----------------------------------------------------------------------------
(* The value-returning operations of GameState, called as the tests of the *)
(* repository call them: const nextState = state.operation(...).  Each     *)
(* builds its result with newState, a new GameState made from copies of    *)
(* the receiver's fields, and assigns no field of the receiver.            *)

\* record of a call: the receiver as the call left it, the GameState
\* returned, and whether the GameState returned is the receiver object
Transition(op, arg, receiver, result, same, err) ==
  [op |-> op, arg |-> arg, receiver |-> receiver, result |-> result,
   same |-> same, error |-> err]

\* a GameState built by newState from the receiver s
Returned(op, arg, s, result) == Transition(op, arg, s, result, FALSE, NoError)

\* the call threw: no GameState was built
Thrown(op, arg, s, err) == Transition(op, arg, s, s, FALSE, err)

\* the state createTestGameState builds for three players without cards
TestStates ==
  {GameState(<<Player("p0", <<>>), Player("p1", <<>>), Player("p2", <<>>)>>,
             0, <<"c1", "c2", "c3", "c4", "c5", "c6", "c7", "c8">>, <<>>,
             NoWorkplaces, <<>>, 0, 2, <<>>, <<>>)}

InitTransitions ==
  /\ state \in InitialStates \cup TestStates
  /\ validateState(state)
  /\ eventListeners = [t \in ListenTypes |-> 0]
  /\ ruleRegistry = registerDefaultRules
  /\ heap = NewHeap
  /\ last = Transition("new", <<>>, state, state, FALSE, NoError)

\* state = state.moveToNextPlayer()
CallMoveToNextPlayer ==
  /\ last' = Returned("moveToNextPlayer", <<>>, state, moveToNextPlayer(state))
  /\ state' = last'.result
  /\ UNCHANGED <<eventListeners, ruleRegistry, heap>>

\* state = state.setCurrentPlayerIndex(index)
CallSetCurrentPlayerIndex(index) ==
  LET r == setCurrentPlayerIndex(state, index) IN
  /\ last' = IF r.err = NoError
             THEN Returned("setCurrentPlayerIndex", <<index>>, state, r.state)
             ELSE Thrown("setCurrentPlayerIndex", <<index>>, state, r.err)
  /\ state' = r.state
  /\ UNCHANGED <<eventListeners, ruleRegistry, heap>>

\* const {drawnCards, state: nextState} = state.drawCards(count)
CallDrawCards(count) ==
  \E r \in drawCards(state, count) :
    /\ last' = Transition("drawCards", <<count>>, state, r.state, r.same, NoError)
    /\ UNCHANGED <<state, eventListeners, ruleRegistry, heap>>

\* const nextState = state.discardCards(cards)
CallDiscardCards(cards) ==
  /\ last' = Returned("discardCards", cards, state, discardCards(state, cards))
  /\ UNCHANGED <<state, eventListeners, ruleRegistry, heap>>

\* const nextState = state.moveCardToCompletionLane(card)
CallMoveCardToCompletionLane(card) ==
  /\ last' = Returned("moveCardToCompletionLane", <<card>>, state,
                      moveCardToCompletionLane(state, card))
  /\ UNCHANGED <<state, eventListeners, ruleRegistry, heap>>

\* const {previousCard, state: nextState} = state.placeCardInWorkplace(card, category)
CallPlaceCardInWorkplace(card, category) ==
  LET r == placeCardInWorkplace(state, card, category) IN
  /\ last' = IF r.err = NoError
             THEN Returned("placeCardInWorkplace", <<card, category>>, state, r.state)
             ELSE Thrown("placeCardInWorkplace", <<card, category>>, state, r.err)
  /\ UNCHANGED <<state, eventListeners, ruleRegistry, heap>>

\* const nextState = state.modifyResources(delta)
CallModifyResources(delta) ==
  /\ last' = Returned("modifyResources", <<delta>>, state, modifyResources(state, delta))
  /\ UNCHANGED <<state, eventListeners, ruleRegistry, heap>>

\* state = state.modifyChaosLevel(delta, playerIndex)
CallModifyChaosLevel(delta, playerIndex) ==
  /\ last' = Returned("modifyChaosLevel", <<delta, playerIndex>>, state,
                      modifyChaosLevel(state, delta, playerIndex))
  /\ state' = last'.result
  /\ UNCHANGED <<eventListeners, ruleRegistry, heap>>

\* state = state.setChaosNotModifiedForFullRound(value)
CallSetChaosNotModifiedForFullRound(value) ==
  /\ last' = Returned("setChaosNotModifiedForFullRound", <<value>>, state,
                      setChaosNotModifiedForFullRound(state, value))
  /\ state' = last'.result
  /\ UNCHANGED <<eventListeners, ruleRegistry, heap>>

\* const nextState = state.addEvent(event)
CallAddEvent(event) ==
  /\ last' = Returned("addEvent", <<event>>, state, addEvent(state, event))
  /\ UNCHANGED <<state, eventListeners, ruleRegistry, heap>>

\* const nextState = state.setMetadata(key, value)
CallSetMetadata(key, value) ==
  /\ last' = Returned("setMetadata", <<key, value>>, state, setMetadata(state, key, value))
  /\ UNCHANGED <<state, eventListeners, ruleRegistry, heap>>

TransitionsNext ==
  \/ CallMoveToNextPlayer
  \/ \E index \in (0 - 1)..3 : CallSetCurrentPlayerIndex(index)
  \/ \E count \in 0..2 : CallDrawCards(count)
  \/ \E cards \in {<<>>, <<"c1">>, <<"c2", "c3">>} : CallDiscardCards(cards)
  \/ \E card \in CardIds : CallMoveCardToCompletionLane(card)
  \/ \E card \in CardIds, category \in Category : CallPlaceCardInWorkplace(card, category)
  \/ \E delta \in {0 - 1, 1, 2} : CallModifyResources(delta)
  \/ \E delta \in {0 - 1, 0, 1}, playerIndex \in 0..1 : CallModifyChaosLevel(delta, playerIndex)
  \/ \E value \in BOOLEAN : CallSetChaosNotModifiedForFullRound(value)
  \/ CallAddEvent(Event("GAME_STARTED", "", NoCard))
  \/ \E key \in {"gameOver", "victoryAchieved"} : CallSetMetadata(key, TRUE)

SpecTransitions == InitTransitions /\ [][TransitionsNext]_vars

----------------------------------------------------------------------------
(* The engine with its registry operations: registerRule, registerRuleSet  *)
(* and setRuleSet of GameEngine, getRule and getRuleSet of its registry,   *)
(* and executeAction for the turn actions                                  *)

\* record of a registry call
RegistryCall(op, arg, result, err) ==
  [op |-> op, arg |-> arg, result |-> result, error |-> err]

\* rule objects given to registerRule: the caller's rules and one rule object
\* of the repository, which the constructor has registered
RuleInputs == DOMAIN CustomRules \cup {"effect-draw-cards"}

\* rule sets given to registerRuleSet: two objects with the id 'minimal', one
\* with the id of the standard rule set, and one that lists customB
RuleSetInputs ==
  {RuleSet("minimal", <<"standard-turn-start">>),
   RuleSet("minimal", <<"standard-turn-end", "customA">>),
   RuleSet("standard", <<>>),
   RuleSet("custom", <<"customB">>)}

\* ids given to getRule
RuleIdInputs == {"standard-setup", "custom-rule", "effect-special-ma"}

\* ids given to getRuleSet and setRuleSet
RuleSetIdInputs == {"standard", "minimal", "custom", "house-rules"}

\* GameEngine.registerRule
RegisterRule(rule) ==
  LET r == registerRule(ruleRegistry, rule) IN
  /\ ruleRegistry' = r.registry
  /\ last' = RegistryCall("registerRule", rule, NoRule, r.err)
  /\ UNCHANGED <<state, eventListeners, heap>>

\* GameEngine.registerRuleSet
RegisterRuleSet(ruleSet) ==
  LET r == registerRuleSet(ruleRegistry, ruleSet) IN
  /\ ruleRegistry' = r.registry
  /\ last' = RegistryCall("registerRuleSet", ruleSet, NoRule, r.err)
  /\ UNCHANGED <<state, eventListeners, heap>>

\* ruleRegistry.getRule(ruleId)
GetRule(ruleId) ==
  /\ last' = RegistryCall("getRule", ruleId, getRule(ruleId).rule, getRule(ruleId).err)
  /\ UNCHANGED <<state, eventListeners, ruleRegistry, heap>>

\* ruleRegistry.getRuleSet(ruleSetId)
GetRuleSet(ruleSetId) ==
  LET r == getRuleSet(ruleSetId) IN
  /\ last' = RegistryCall("getRuleSet", ruleSetId,
                          IF r.err = NoError THEN RuleSet(r.id, r.rules) ELSE NoRule,
                          r.err)
  /\ UNCHANGED <<state, eventListeners, ruleRegistry, heap>>

\* GameEngine.setRuleSet: getRuleSet throws for an unregistered id; the
\* GameState that state.setMetadata returns is dropped
SetRuleSet(ruleSetId) ==
  LET ruleSet == getRuleSet(ruleSetId)
      dropped == setMetadata(state, "activeRuleSetId", ruleSet.id)
  IN /\ last' = RegistryCall("setRuleSet", ruleSetId, NoRule, ruleSet.err)
     /\ UNCHANGED <<state, eventListeners, ruleRegistry, heap>>

\* the turn actions given to executeAction
TurnActions ==
  {Action(type, NoCard, "none", "none") : type \in {"TURN_START", "TURN_END"}}

RegistryNext ==
  \/ \E rule \in RuleInputs : RegisterRule(rule)
  \/ \E ruleSet \in RuleSetInputs : RegisterRuleSet(ruleSet)
  \/ \E ruleId \in RuleIdInputs : GetRule(ruleId)
  \/ \E ruleSetId \in RuleSetIdInputs : GetRuleSet(ruleSetId)
  \/ \E ruleSetId \in RuleSetIdInputs : SetRuleSet(ruleSetId)
  \/ \E action \in TurnActions : ExecuteAction(action)

SpecRegistry == Init /\ [][RegistryNext]_vars

----------------------------------------------------------------------------
(* The victory predicates of CheckVictoryRule, applied to the parameters   *)
(* of a configured condition                                               *)

\* completion lanes of the states the predicates are applied to
LaneInputs ==
  {<<>>, <<"c5">>, <<"c6">>, <<"c1", "c3", "c4">>, <<"c8", "c6", "c5">>,
   <<"c1", "c2", "c3", "c4", "c5", "c6", "c7", "c8">>}

\* states with one player, the lane drawn from LaneInputs, the other cards in
\* the deck, and every chaos level
VictoryStates ==
  {GameState(<<Player("p0", <<>>)>>, 0,
             SetToSeq(CardIds \ Range(lane)), <<>>, NoWorkplaces, lane,
             chaosLevel, 0, <<>>, <<>>) :
     lane \in LaneInputs, chaosLevel \in 0..3}

\* parameters of the configured conditions: Undefined is a parameter that is
\* not configured
VictoryConditionInputs ==
  {BalancedProduct(n) : n \in {Undefined, 0, 1, 2, 3}}
  \cup {WorldChangingInnovation(v, n) : v \in {Undefined} \cup (0 - 3)..3,
                                        n \in {Undefined, 0, 1, 2, 5}}
  \cup {FireExtinguishing(target) : target \in {Undefined} \cup 0..3}

InitVictory ==
  /\ state \in VictoryStates
  /\ validateState(state)
  /\ eventListeners = [t \in ListenTypes |-> 0]
  /\ ruleRegistry = registerDefaultRules
  /\ heap = NewHeap
  /\ last = [op |-> "new", condition |-> CustomVictory, result |-> FALSE]

\* record of one evaluation of a victory predicate
Checked(op, condition, result) == [op |-> op, condition |-> condition, result |-> result]

\* checkBalancedProductVictory(state, condition.params)
CallCheckBalancedProductVictory(condition) ==
  /\ condition.type = "BALANCED_PRODUCT"
  /\ last' = Checked("checkBalancedProductVictory", condition,
                     checkBalancedProductVictory(state, condition))
  /\ UNCHANGED <<state, eventListeners, ruleRegistry, heap>>

\* checkWorldChangingInnovationVictory(state, condition.params)
CallCheckWorldChangingInnovationVictory(condition) ==
  /\ condition.type = "WORLD_CHANGING_INNOVATION"
  /\ last' = Checked("checkWorldChangingInnovationVictory", condition,
                     checkWorldChangingInnovationVictory(state, condition))
  /\ UNCHANGED <<state, eventListeners, ruleRegistry, heap>>

\* checkFireExtinguishingVictory(state, condition.params)
CallCheckFireExtinguishingVictory(condition) ==
  /\ condition.type = "FIRE_EXTINGUISHING"
  /\ last' = Checked("checkFireExtinguishingVictory", condition,
                     checkFireExtinguishingVictory(state, condition))
  /\ UNCHANGED <<state, eventListeners, ruleRegistry, heap>>

VictoryNext ==
  \/ \E condition \in VictoryConditionInputs : CallCheckBalancedProductVictory(condition)
  \/ \E condition \in VictoryConditionInputs : CallCheckWorldChangingInnovationVictory(condition)
  \/ \E condition \in VictoryConditionInputs : CallCheckFireExtinguishingVictory(condition)

SpecVictory == InitVictory /\ [][VictoryNext]_vars

----------------------------------------------------------------------------
(* Drawing from the deck: drawCards and drawCardsMUTING of GameState on    *)
(* decks and discard piles of every small size                             *)

\* decks of the states cards are drawn from
DeckInputs == {<<>>, <<"c1">>, <<"c1", "c2">>, <<"c1", "c2", "c3">>}

\* discard piles of the states cards are drawn from
DiscardInputs == {<<>>, <<"c4">>, <<"c4", "c5">>, <<"c4", "c5", "c6">>}

\* numbers of cards asked for
MaxDraw == 4

DrawStates ==
  {GameState(<<Player("p0", <<>>)>>, 0, deck, discard, NoWorkplaces,
             <<"c7", "c8">>, 0, 0, <<>>, <<>>) :
     deck \in DeckInputs, discard \in DiscardInputs}

\* record of a draw: the receiver before the call, the cards returned and the
\* state after the call (the returned state, or the receiver of a MUTING draw)
Drawn(op, count, receiver, drawnCards, result) ==
  [op |-> op, arg |-> <<count>>, receiver |-> receiver,
   drawnCards |-> drawnCards, result |-> result]

InitDraw ==
  /\ state \in DrawStates
  /\ validateState(state)
  /\ eventListeners = [t \in ListenTypes |-> 0]
  /\ ruleRegistry = registerDefaultRules
  /\ heap = NewHeap
  /\ last = Drawn("new", 0, state, <<>>, state)

\* state.drawCards(count): the receiver is left as it is
DrawCards(count) ==
  \E r \in drawCards(state, count) :
    /\ last' = Drawn("drawCards", count, state, r.drawnCards, r.state)
    /\ UNCHANGED <<state, eventListeners, ruleRegistry, heap>>

\* state.drawCardsMUTING(count)
DrawCardsMUTING(count) ==
  \E r \in drawCardsMUTING(state, count) :
    /\ state' = r.state
    /\ last' = Drawn("drawCardsMUTING", count, state, r.drawnCards, r.state)
    /\ UNCHANGED <<eventListeners, ruleRegistry, heap>>

DrawNext ==
  \/ \E count \in 0..MaxDraw : DrawCards(count)
  \/ \E count \in 0..MaxDraw : DrawCardsMUTING(count)

SpecDraw == InitDraw /\ [][DrawNext]_vars

----------------------------------------------------------------------------
(* Player objects: the value-returning and the MUTING hand operations and  *)
(* setMetadata, on objects that refer to their hand array and their        *)
(* metadata object                                                         *)

\* Player objects are only created while fewer exist
MaxPlayerObjects == 3
\* addCardToHandMUTING is only explored on a hand shorter than this
MaxHand == 2

\* cards and metadata values given to the Player operations
PlayerCards == {"c1", "c2"}
MetadataValues == {1}

\* Player.hand (getter) of the Player p
Hand(h, p) == h.arrays[h.players[p].hand]

\* Player.metadata (getter) of the Player p
Metadata(h, p) == h.objects[h.players[p].metadata]

\* Player.newPlayer({hand}): a new Player with the given hand array and with
\* this._metadata, the metadata object of the receiver
newPlayer(h, p, hand) ==
  [h EXCEPT !.arrays = Append(h.arrays, hand),
            !.players = Append(h.players,
                               NewPlayerObject(h.players[p].id, Len(h.arrays) + 1,
                                               h.players[p].metadata, p))]

\* record of a call on the Player receiver
PlayerCall(op, receiver, arg, result, removedCard, err) ==
  [op |-> op, receiver |-> receiver, arg |-> arg, result |-> result,
   removedCard |-> removedCard, error |-> err]

\* Player.addCardToHand
Player_addCardToHand(p, card) ==
  /\ Len(heap.players) < MaxPlayerObjects
  /\ heap' = newPlayer(heap, p, Append(Hand(heap, p), card))
  /\ last' = PlayerCall("addCardToHand", p, card, Len(heap.players) + 1, NoCard, NoError)
  /\ UNCHANGED <<state, eventListeners, ruleRegistry>>

\* Player.removeCardFromHand
Player_removeCardFromHand(p, cardId) ==
  LET index == HandIndex(Hand(heap, p), cardId)
      newHand == SubSeq(Hand(heap, p), 1, index - 1) \o
                 SubSeq(Hand(heap, p), index + 1, Len(Hand(heap, p)))
  IN /\ Len(heap.players) < MaxPlayerObjects
     /\ IF index = 0
        THEN /\ heap' = heap
             /\ last' = PlayerCall("removeCardFromHand", p, cardId, 0, NoCard, "NotFound")
        ELSE /\ heap' = newPlayer(heap, p, newHand)
             /\ last' = PlayerCall("removeCardFromHand", p, cardId, Len(heap.players) + 1,
                                   Hand(heap, p)[index], NoError)
     /\ UNCHANGED <<state, eventListeners, ruleRegistry>>

\* Player.addCardToHandMUTING
Player_addCardToHandMUTING(p, card) ==
  /\ Len(Hand(heap, p)) < MaxHand
  /\ heap' = [heap EXCEPT !.arrays[heap.players[p].hand] = Append(@, card)]
  /\ last' = PlayerCall("addCardToHandMUTING", p, card, 0, NoCard, NoError)
  /\ UNCHANGED <<state, eventListeners, ruleRegistry>>

\* Player.removeCardFromHandMUTING
Player_removeCardFromHandMUTING(p, cardId) ==
  LET index == HandIndex(Hand(heap, p), cardId) IN
  /\ IF index = 0
     THEN /\ heap' = heap
          /\ last' = PlayerCall("removeCardFromHandMUTING", p, cardId, 0, NoCard, "NotFound")
     ELSE /\ heap' = [heap EXCEPT !.arrays[heap.players[p].hand] =
                        SubSeq(@, 1, index - 1) \o SubSeq(@, index + 1, Len(@))]
          /\ last' = PlayerCall("removeCardFromHandMUTING", p, cardId, 0,
                                Hand(heap, p)[index], NoError)
  /\ UNCHANGED <<state, eventListeners, ruleRegistry>>

\* Player.setMetadata
Player_setMetadata(p, key, value) ==
  /\ heap' = [heap EXCEPT !.objects[heap.players[p].metadata][key] = value]
  /\ last' = PlayerCall("setMetadata", p, <<key, value>>, 0, NoCard, NoError)
  /\ UNCHANGED <<state, eventListeners, ruleRegistry>>

\* the Player objects that exist
Players == 1..Len(heap.players)

\* the engine's variables stay as constructed while Player objects are
\* operated on
InitPlayer ==
  /\ state \in TestStates
  /\ eventListeners = [t \in ListenTypes |-> 0]
  /\ ruleRegistry = registerDefaultRules
  /\ heap = NewHeap
  /\ last = PlayerCall("new", 1, NoCard, 1, NoCard, NoError)

PlayerNext ==
  \/ \E p \in Players, card \in PlayerCards : Player_addCardToHand(p, card)
  \/ \E p \in Players, cardId \in PlayerCards : Player_removeCardFromHand(p, cardId)
  \/ \E p \in Players, card \in PlayerCards : Player_addCardToHandMUTING(p, card)
  \/ \E p \in Players, cardId \in PlayerCards : Player_removeCardFromHandMUTING(p, cardId)
  \/ \E p \in Players, key \in MetadataKeys, value \in MetadataValues :
       Player_setMetadata(p, key, value)

SpecPlayer == InitPlayer /\ [][PlayerNext]_vars

----------------------------------------------------------------------------
(* The push-out branches of PlaceCardRule.apply, applied to the occupant   *)
(* that placeCardInWorkplaceMUTING returns for a Card                      *)

\* push-outs are only explored while the lane and the discard pile together
\* hold fewer cards
MaxPiles == 3

\* values of payload.pushOutOption: "none" is an absent option, "other" any
\* other value
PushOutOptions == {"lane", "discard", "none", "other"}

\* PlaceCardRule.apply from `if (previousCard)` on: the payments go through
\* the value-returning modifyResources and addEvent, whose results are
\* dropped
PlaceCardRule_pushOut(s, previousCard, pushOutOption) ==
  IF previousCard = NoCard THEN s
  ELSE IF pushOutOption = "lane"
  THEN IF isResourceCard(previousCard)
       THEN LET cost == CardCatalog[previousCard].situationEffect IN
            IF s.resources >= cost
            THEN LET dropped == addEvent(modifyResources(s, 0 - cost),
                                         Event("RESOURCE_CHANGED", "", NoCard))
                 IN moveCardToCompletionLaneMUTING(s, previousCard)
            ELSE discardCardsMUTING(s, <<previousCard>>)
       ELSE moveCardToCompletionLaneMUTING(s, previousCard)
  ELSE IF pushOutOption = "discard"
  THEN IF isTroubleCard(previousCard)
       THEN LET cost == 0 - CardCatalog[previousCard].situationEffect IN
            IF s.resources >= cost
            THEN LET dropped == addEvent(modifyResources(s, 0 - cost),
                                         Event("RESOURCE_CHANGED", "", NoCard))
                 IN discardCardsMUTING(s, <<previousCard>>)
            ELSE moveCardToCompletionLaneMUTING(s, previousCard)
       ELSE discardCardsMUTING(s, <<previousCard>>)
  ELSE s

\* one player holding a card of each category, every slot occupied (by a
\* resource card, a resource card and a trouble card), resources 0 or 3
PushOutStates ==
  {GameState(<<Player("p0", <<"c1", "c3", "c4">>)>>, 0, <<"c2", "c5">>, <<>>,
             [TECHNOLOGY |-> "c7", USER |-> "c6", MANAGEMENT |-> "c8"], <<>>,
             0, resources, <<>>, <<>>) : resources \in {0, 3}}

\* record of one placement with its push-out
PushedOut(card, category, pushOutOption, previousCard, err) ==
  [op |-> "pushOut", cardId |-> card, category |-> category,
   pushOutOption |-> pushOutOption, previousCard |-> previousCard, error |-> err]

InitPushOut ==
  /\ state \in PushOutStates
  /\ validateState(state)
  /\ eventListeners = [t \in ListenTypes |-> 0]
  /\ ruleRegistry = registerDefaultRules
  /\ heap = NewHeap
  /\ last = [PushedOut(NoCard, "none", "none", NoCard, NoError) EXCEPT !.op = "new"]

\* state.placeCardInWorkplaceMUTING(card, category) for a held Card, followed
\* by the push-out branches for the occupant it returns
PushOut(card, category, pushOutOption) ==
  LET placed == placeCardInWorkplaceMUTING(state, card, category) IN
  /\ Len(state.completionLane) + Len(state.discard) < MaxPiles
  /\ HandIndex(currentPlayer(state).hand, card) # 0
  /\ state' = IF placed.err # NoError THEN state
              ELSE PlaceCardRule_pushOut(placed.state, placed.previousCard, pushOutOption)
  /\ last' = PushedOut(card, category, pushOutOption, placed.previousCard, placed.err)
  /\ UNCHANGED <<eventListeners, ruleRegistry, heap>>

PushOutNext ==
  \E card \in CardIds, category \in Category, pushOutOption \in PushOutOptions :
    PushOut(card, category, pushOutOption)

SpecPushOut == InitPushOut /\ [][PushOutNext]_vars

----------------------------------------------------------------------------
(* Properties                                                              *)

\* every location of state s that holds a card, as one sequence of card ids
RECURSIVE Hands(_)
Hands(players) ==
  IF players = <<>> THEN <<>> ELSE Head(players).hand \o Hands(Tail(players))

RECURSIVE Slots(_, _)
Slots(workplaces, categories) ==
  IF categories = {} THEN <<>>
  ELSE LET c == CHOOSE c \in categories : TRUE IN
       (IF workplaces[c] = NoCard THEN <<>> ELSE <<workplaces[c]>>)
         \o Slots(workplaces, categories \ {c})

CardLocations(s) ==
  s.deck \o s.discard \o Hands(s.players) \o Slots(s.workplaces, Category)
    \o s.completionLane

\* a step of the engine that is an executeAction call
Dispatch == last'.op = "executeAction"

\* C1: card conservation: in every reachable state each card id is in exactly
\* one of deck, discard, a hand, a workplace slot and the completion lane,
\* and the number of cards over these locations stays what it was.
C1_CardConservation ==
  /\ \A cardId \in CardIds : Count(CardLocations(state), cardId) = 1
  /\ Len(CardLocations(state)) = Cardinality(CardIds)

\* C2: bounds: in every reachable state chaosLevel and resources are integers
\* between 0 and 3.
C2_Bounds == state.chaosLevel \in 0..3 /\ state.resources \in 0..3

C4_TurnAdvance ==
  [][Dispatch /\ last'.action.type = "TURN_END" =>
       state'.currentPlayerIndex =
         (state.currentPlayerIndex + 1) % Len(state.players)]_vars

\* C5: every executeAction returns with a bounded nesting of rule
\* applications (the stack is never exhausted) and applies ChaosLevel3Rule at
\* most once.
C5_RecursionBounded ==
  last.op = "executeAction" => last.error # "RangeError" /\ last.c3 <= 1

\* C6: at the end of an executeAction in which no rule raised, the events
\* delivered to listeners are the eventHistory entries appended during that
\* dispatch, in append order, each to the listeners of its type.
C6_EventDrain ==
  [][Dispatch /\ last'.error = NoError =>
       /\ IsPrefix(state.eventHistory, state'.eventHistory)
       /\ last'.delivered =
            emitAll(eventListeners,
                    SubSeq(state'.eventHistory, Len(state.eventHistory) + 1,
                           Len(state'.eventHistory)))]_vars

\* the hand of the player whose turn it is
CurrentHand(s) == currentPlayer(s).hand

\* an executeAction call of the given type that names a card the current
\* player holds
DispatchHeld(type) ==
  /\ Dispatch
  /\ last'.action.type = type
  /\ HandIndex(CurrentHand(state), last'.action.cardId) # 0

\* C7: a PlayCard of a held card c that returns without error has removed c
\* from the hand (the hand is one card smaller), appended a CardPlayed event
\* for c, and appended c to discard.
C7_PlayCardProtocol ==
  [][DispatchHeld("PLAY_CARD") /\ last'.error = NoError =>
       LET c == last'.action.cardId IN
       /\ Count(CurrentHand(state'), c) = 0
       /\ Len(CurrentHand(state')) = Len(CurrentHand(state)) - 1
       /\ \E k \in (Len(state.eventHistory) + 1)..Len(state'.eventHistory) :
            /\ state'.eventHistory[k].type = "CARD_PLAYED"
            /\ state'.eventHistory[k].cardId = c
       /\ Len(state'.discard) > Len(state.discard)
       /\ state'.discard[Len(state'.discard)] = c]_vars

\* C8: executeAction(PlaceCard) naming a held card and a category the card
\* has completes without error, with the card in that workplace slot and no
\* longer in the hand.
C8_PlaceCard ==
  [][DispatchHeld("PLACE_CARD")
       /\ hasCategory(last'.action.cardId, last'.action.category) =>
       /\ last'.error = NoError
       /\ state'.workplaces[last'.action.category] = last'.action.cardId
       /\ Count(CurrentHand(state'), last'.action.cardId) = 0]_vars

\* C9: when a PlaceCard puts a held card into an occupied slot, the previous
\* occupant p leaves the slot for the completion lane or for discard: with
\* "lane", a resource card p goes to the lane if its cost is affordable after
\* the placed card's effect and to discard otherwise, any other p goes to
\* the lane; with "discard", a trouble card p goes to discard if its cost is
\* affordable and to the lane otherwise, any other p goes to discard.
C9_PushOut ==
  [][DispatchHeld("PLACE_CARD")
       /\ hasCategory(last'.action.cardId, last'.action.category)
       /\ state.workplaces[last'.action.category] # NoCard =>
       LET c == last'.action.cardId
           p == state.workplaces[last'.action.category]
           e == CardCatalog[p].situationEffect
           afterEffect == Clamp03(JsAdd(state.resources, CardCatalog[c].situationEffect))
           cost == IF e < 0 THEN 0 - e ELSE e
           paying == IF last'.action.pushOutOption = "lane"
                     THEN isResourceCard(p) ELSE isTroubleCard(p)
           affordable == afterEffect >= cost
           toLane == IF last'.action.pushOutOption = "lane"
                     THEN ~paying \/ affordable
                     ELSE paying /\ ~affordable
       IN /\ IF toLane
             THEN state'.completionLane = Append(state.completionLane, p)
             ELSE state'.discard = Append(state.discard, p)
          /\ state'.resources =
               IF paying /\ affordable THEN afterEffect - cost ELSE afterEffect]_vars

\* C10: a PlaceCard naming a held card that lacks the addressed category
\* fails with a CategoryMismatch error and leaves the state as it was.
C10_CategoryEnforcement ==
  [][DispatchHeld("PLACE_CARD")
       /\ ~hasCategory(last'.action.cardId, last'.action.category) =>
       /\ last'.error = "CategoryMismatch"
       /\ state' = state]_vars

\* C11: workplace invariant: in every reachable state there is exactly one
\* slot per category, each slot holds no card or one card, and a card held in
\* slot C has C among its categories.
C11_WorkplaceInvariant ==
  /\ DOMAIN state.workplaces = Category
  /\ \A category \in Category :
       \/ state.workplaces[category] = NoCard
       \/ /\ state.workplaces[category] \in CardIds
          /\ hasCategory(state.workplaces[category], category)

\* C11 witness: a placement into an occupied slot has replaced its card
C11_Witness ==
  /\ last.op = "placeCardInWorkplaceMUTING"
  /\ last.error = NoError
  /\ state.workplaces[last.action.category] = last.action.cardId
  /\ \A category \in Category : state.workplaces[category] # NoCard

\* C12: a PlayCard of a held card whose playEffect names a rule that is not
\* registered completes without error: the effect is skipped, the card leaves
\* the hand, a CardPlayed event for it is appended and it is appended to
\* discard.
C12_UnregisteredEffect ==
  [][DispatchHeld("PLAY_CARD")
       /\ hasPlayEffect(last'.action.cardId)
       /\ getRule(CardCatalog[last'.action.cardId].playEffect.ruleId).err # NoError =>
       LET c == last'.action.cardId IN
       /\ last'.error = NoError
       /\ Count(CurrentHand(state'), c) = 0
       /\ \E k \in (Len(state.eventHistory) + 1)..Len(state'.eventHistory) :
            /\ state'.eventHistory[k].type = "CARD_PLAYED"
            /\ state'.eventHistory[k].cardId = c
       /\ state'.discard = Append(state.discard, c)]_vars

\* an event of the given type and reason is among the entries of eventHistory
\* appended by the step
Appended(type, reason) ==
  \E k \in (Len(state.eventHistory) + 1)..Len(state'.eventHistory) :
    /\ state'.eventHistory[k].type = type
    /\ state'.eventHistory[k].reason = reason

\* C13: when ModifyChaosLevelRule is applied with a positive delta while
\* chaosLevel is 3 (a played card whose effect is that rule), chaosLevel stays
\* 3 and a DefeatTriggered event with reason chaos overflow is appended.
C13_ChaosOverflow ==
  [][DispatchHeld("PLAY_CARD")
       /\ CardCatalog[last'.action.cardId].playEffect.ruleId = "standard-modify-chaos"
       /\ JsPositive(CardCatalog[last'.action.cardId].playEffect.params.delta)
       /\ state.chaosLevel = 3 =>
       /\ state'.chaosLevel = 3
       /\ Appended("DEFEAT_TRIGGERED", "chaos-overflow")]_vars

\* C14: a TurnEnd that ends the turn of the last player (the advance wraps to
\* index 0) in a game whose chaosLevel no action has modified raises
\* chaosLevel by 1 (clamped at 3) and, when that changes chaosLevel, records
\* the sentinel -1 as lastChaosModifierPlayer; a TurnEnd that does not wrap
\* leaves chaosLevel as it was.
C14_StagnationPenalty ==
  [][Dispatch /\ last'.action.type = "TURN_END" =>
       IF state.currentPlayerIndex = Len(state.players) - 1
       THEN state.lastChaosModifierPlayer = NullIndex =>
              /\ state'.chaosLevel = Clamp03(state.chaosLevel + 1)
              /\ state.chaosLevel < 3 => state'.lastChaosModifierPlayer = 0 - 1
       ELSE state'.chaosLevel = state.chaosLevel]_vars

\* the victory condition is satisfied in state s
VictoryMet(s, condition) ==
  CASE condition.type = "BALANCED_PRODUCT" -> checkBalancedProductVictory(s, condition)
    [] condition.type = "WORLD_CHANGING_INNOVATION" ->
         checkWorldChangingInnovationVictory(s, condition)
    [] condition.type = "FIRE_EXTINGUISHING" -> checkFireExtinguishingVictory(s, condition)
    [] OTHER -> FALSE

\* the defeat condition is satisfied in state s
DefeatMet(s, condition) ==
  CASE condition.type = "DECK_DEPLETION" -> s.deck = <<>> /\ s.discard = <<>>
    [] condition.type = "CHAOS_OVERFLOW" ->
         \E k \in 1..Len(s.eventHistory) :
           /\ s.eventHistory[k].type = "DEFEAT_TRIGGERED"
           /\ s.eventHistory[k].reason = "chaos-overflow"
    [] condition.type = "STAGNATION_PENALTY" ->
         s.chaosNotModifiedForFullRound /\ s.chaosLevel >= 3
    [] OTHER -> FALSE

\* the least element of a non-empty set of indices, 0 for the empty set
First(indices) ==
  IF indices = {} THEN 0 ELSE CHOOSE i \in indices : \A j \in indices : i <= j

\* eventHistory and metadata after one evaluation of a condition list: one
\* event for the first satisfied condition, gameOver and the outcome flag set
Evaluated(s, conditions, met, eventType, flag) ==
  LET k == First({i \in 1..Len(conditions) : met[i]}) IN
  IF k = 0 THEN s
  ELSE [s EXCEPT !.eventHistory = Append(@, Event(eventType, conditions[k].type, NoCard)),
                 !.metadata = [@ EXCEPT !.gameOver = TRUE, ![flag] = TRUE]]

AppendedCount(type) ==
  Cardinality({k \in (Len(state.eventHistory) + 1)..Len(state'.eventHistory) :
                 state'.eventHistory[k].type = type})

\* C16: a TurnEnd of a player who holds h < 3 cards completes with
\* min(3 - h, |deck| + |discard|) more cards in that player's hand, the old
\* hand a prefix of the new one, one CardDrawn event per drawn card, and every
\* other player's hand as it was.
C16_DrawTopUp ==
  [][Dispatch /\ last'.action.type = "TURN_END"
       /\ Len(CurrentHand(state)) < 3 =>
       LET p == state.currentPlayerIndex + 1
           h == Len(state.players[p].hand)
           available == Len(state.deck) + Len(state.discard)
           n == IF 3 - h <= available THEN 3 - h ELSE available
       IN /\ last'.error = NoError
          /\ Len(state'.players[p].hand) = h + n
          /\ IsPrefix(state.players[p].hand, state'.players[p].hand)
          /\ AppendedCount("CARD_DRAWN") = n
          /\ \A q \in 1..Len(state.players) :
               q # p => state'.players[q].hand = state.players[q].hand]_vars

\* C17: a TurnStart dispatched as the first action (empty eventHistory) on a
\* state with n players with empty hands and a deck of D >= 3n cards
\* completes with 3 cards in every hand and D - 3n cards in the deck, the
\* dealt cards being pairwise distinct cards taken out of the deck.
C17_SetupDeal ==
  [][Dispatch /\ last'.action.type = "TURN_START"
       /\ state.eventHistory = <<>>
       /\ (\A q \in 1..Len(state.players) : state.players[q].hand = <<>>)
       /\ Len(state.deck) >= 3 * Len(state.players) =>
       /\ last'.error = NoError
       /\ (\A q \in 1..Len(state'.players) : Len(state'.players[q].hand) = 3)
       /\ Len(state'.deck) = Len(state.deck) - 3 * Len(state.players)
       /\ \A cardId \in Range(state.deck) :
            Count(state'.deck \o Hands(state'.players), cardId) = 1]_vars

\* the play effect of the card a PlayCard step names
PlayedEffect == CardCatalog[last'.action.cardId].playEffect

\* C18: the effect of a rule invoked from inside PlayCardRule is visible in the
\* state executeAction leaves: a held card with 'effect-add-resources' and
\* amount a > 0 played at resources r leaves resources min(3, r + a), and one
\* with 'effect-increase-chaos' and amount a > 0 played at chaosLevel c
\* leaves chaosLevel min(3, c + a).
C18_NestedThreading ==
  [][DispatchHeld("PLAY_CARD") /\ JsPositive(PlayedEffect.params.amount) =>
       /\ PlayedEffect.ruleId = "effect-add-resources" =>
            state'.resources = Clamp03(state.resources + PlayedEffect.params.amount)
       /\ PlayedEffect.ruleId = "effect-increase-chaos" =>
            state'.chaosLevel = Clamp03(state.chaosLevel + PlayedEffect.params.amount)]_vars

\* C19: a PlaceCard of a held card into an empty slot of one of its categories
\* leaves resources changed by the card's situationEffect clamped into 0..3,
\* appends a ResourceChanged event exactly when resources changed, and
\* appends a CardPlaced event for the card after it.
C19_PlacementEffect ==
  [][DispatchHeld("PLACE_CARD")
       /\ hasCategory(last'.action.cardId, last'.action.category)
       /\ state.workplaces[last'.action.category] = NoCard
       /\ state.resources \in 0..3 =>
       LET c == last'.action.cardId
           expected == Clamp03(state.resources + CardCatalog[c].situationEffect)
       IN /\ state'.resources = expected
          /\ AppendedCount("RESOURCE_CHANGED") = IF expected = state.resources THEN 0 ELSE 1
          /\ AppendedCount("CARD_PLACED") = 1
          /\ state'.eventHistory[Len(state'.eventHistory)] = Event("CARD_PLACED", "", c)]_vars

\* C20: a PayResources dispatch raises no exception and, for the amount a it
\* asks for, either pays (resources >= a before, and exactly a less after) or
\* refuses (resources < a, state unchanged).
C20_PayResources ==
  [][Dispatch /\ last'.action.type = "PAY_RESOURCES" /\ state.resources \in 0..3 =>
       /\ last'.error = NoError
       /\ \E a \in 0..4 :
            IF state.resources >= a
            THEN state'.resources = state.resources - a
            ELSE state' = state]_vars

\* C21: when a chaos delta is applied (a played card whose effect is
\* ModifyChaosLevelRule with a delta), lastChaosModifierPlayer is set to the
\* current player, chaosNotModifiedForFullRound is cleared and the
\* roundsSinceChaosModified counter is reset exactly when chaosLevel changed;
\* a delta that is clamped away leaves the three as they were.
C21_ChaosTracking ==
  [][DispatchHeld("PLAY_CARD")
       /\ PlayedEffect.ruleId = "standard-modify-chaos"
       /\ PlayedEffect.params.delta # Undefined
       /\ state.chaosLevel \in 0..3 =>
       IF state'.chaosLevel # state.chaosLevel
       THEN /\ state'.lastChaosModifierPlayer = state.currentPlayerIndex
            /\ state'.chaosNotModifiedForFullRound = FALSE
            /\ state'.metadata.roundsSinceChaosModified = 0
       ELSE /\ state'.lastChaosModifierPlayer = state.lastChaosModifierPlayer
            /\ state'.chaosNotModifiedForFullRound = state.chaosNotModifiedForFullRound
            /\ state'.metadata.roundsSinceChaosModified =
                 state.metadata.roundsSinceChaosModified]_vars

\* C22: zero-delta no-op: for every state and player index p,
\* modifyChaosLevel(0, p) returns a state with the receiver's chaosLevel,
\* lastChaosModifierPlayer and chaosNotModifiedForFullRound.
C22_ZeroDelta ==
  [][last'.op = "modifyChaosLevel" /\ last'.arg[1] = 0 =>
       /\ last'.result.chaosLevel = state.chaosLevel
       /\ last'.result.lastChaosModifierPlayer = state.lastChaosModifierPlayer
       /\ last'.result.chaosNotModifiedForFullRound = state.chaosNotModifiedForFullRound]_vars

\* C22 witness: modifyChaosLevel(0, p) was called on a state whose chaosLevel
\* another player modified and whose chaosNotModifiedForFullRound is set
C22_Witness ==
  /\ last.op = "modifyChaosLevel"
  /\ last.arg[1] = 0
  /\ last.receiver.lastChaosModifierPlayer \in 0..1
  /\ last.receiver.lastChaosModifierPlayer # last.arg[2]
  /\ last.receiver.chaosNotModifiedForFullRound
  /\ last.result.lastChaosModifierPlayer = last.receiver.lastChaosModifierPlayer
  /\ last.result.chaosNotModifiedForFullRound

\* the value-returning transition operations of GameState
TransitionOps ==
  {"moveToNextPlayer", "setCurrentPlayerIndex", "drawCards", "discardCards",
   "moveCardToCompletionLane", "placeCardInWorkplace", "modifyResources",
   "modifyChaosLevel", "setChaosNotModifiedForFullRound", "addEvent",
   "setMetadata"}

\* C28: GameState immutability: every value-returning transition operation
\* that returns, for every argument including drawCards(0), returns a state
\* object that is not its receiver, and every field of the receiver has after
\* the call the value it had before.
C28_Immutability ==
  [][last'.op \in TransitionOps /\ last'.error = NoError =>
       /\ ~last'.same
       /\ last'.receiver = state]_vars

\* C30: turn wrap: for a state with n >= 1 players and currentPlayerIndex i,
\* moveToNextPlayer returns a state whose currentPlayerIndex is (i + 1) mod n
\* and whose other fields are the receiver's.
C30_TurnWrap ==
  [][last'.op = "moveToNextPlayer" =>
       /\ Len(state.players) >= 1
       /\ last'.result =
            [state EXCEPT !.currentPlayerIndex =
               (state.currentPlayerIndex + 1) % Len(state.players)]]_vars

\* C30 witness: with three players moveToNextPlayer has gone from the last
\* player, index 2, to index 0
C30_Witness ==
  /\ last.op = "moveToNextPlayer"
  /\ Len(last.receiver.players) = 3
  /\ last.receiver.currentPlayerIndex = 2
  /\ state.currentPlayerIndex = 0

\* C23: a dispatch in which ChaosLevel3Rule is applied on a deck of two or
\* more cards returns with the two cards drawn (the last two of the deck) out
\* of the deck and in discard, and in no hand, workplace slot or the
\* completion lane.
C23_CascadeDiscard ==
  [][Dispatch /\ "standard-chaos-level-3" \in Range(last'.applied)
       /\ Len(state.deck) >= 2 =>
       LET drawn == {state.deck[Len(state.deck)], state.deck[Len(state.deck) - 1]} IN
       /\ last'.error = NoError
       /\ drawn \subseteq Range(state'.discard)
       /\ drawn \cap Range(state'.deck) = {}
       /\ drawn \cap Range(Hands(state'.players)) = {}
       /\ drawn \cap Range(Slots(state'.workplaces, Category)) = {}
       /\ drawn \cap Range(state'.completionLane) = {}]_vars

\* C24: ChaosLevel2Rule is applied in a dispatch exactly when chaosLevel is 2
\* before the dispatch and the action is PlayCard, PlaceCard or DiscardCard
\* (unless a rule before it in the dispatch raises); applied on a deck that
\* holds a card, it returns without error with the top card taken off the
\* deck, a CardDrawn and a CardDiscarded event appended and, when it is the
\* only rule applied, the drawn card at the end of the current player's hand,
\* the card that was first in that hand in discard and the hand as large as
\* before.
C24_ChaosLevel2 ==
  [][Dispatch =>
       LET applied == "standard-chaos-level-2" \in Range(last'.applied)
           applicable == /\ state.chaosLevel = 2
                         /\ last'.action.type \in {"PLAY_CARD", "PLACE_CARD", "DISCARD_CARD"}
           hand == Append(CurrentHand(state), state.deck[Len(state.deck)])
       IN /\ applied => applicable
          /\ applicable => applied \/ last'.error # NoError
          /\ applied /\ Len(state.deck) >= 1 =>
               /\ last'.error = NoError
               /\ state'.deck = SubSeq(state.deck, 1, Len(state.deck) - 1)
               /\ AppendedCount("CARD_DRAWN") = 1
               /\ AppendedCount("CARD_DISCARDED") >= 1
               /\ last'.applied = <<"standard-chaos-level-2">> =>
                    /\ CurrentHand(state') = Tail(hand)
                    /\ state'.discard = Append(state.discard, Head(hand))]_vars

\* C29: event history is append-only: across every executeAction the
\* eventHistory of the engine's state before the dispatch is a prefix of its
\* eventHistory after it, whether or not a rule raised.
C29_AppendOnly ==
  [][Dispatch => IsPrefix(state.eventHistory, state'.eventHistory)]_vars

\* C29 witness: a CheckVictory dispatch has appended its VictoryAchieved event
\* behind the event an earlier dispatch recorded
C29_Witness ==
  /\ last.op = "executeAction"
  /\ last.action.type = "CHECK_VICTORY"
  /\ Len(state.eventHistory) = 2
  /\ state.eventHistory[1].type = "RESOURCE_CHANGED"
  /\ state.eventHistory[2].type = "VICTORY_ACHIEVED"

\* C25: registerRule and registerRuleSet fail for an id that is already
\* registered and leave the registry unchanged, and otherwise store the value
\* under its id; getRule and getRuleSet return the value stored under the id
\* and fail with a not-found error for an id that is not registered; no step
\* removes or replaces a registered value, so the stored value is the first
\* one registered and a successful lookup stays successful
C25_RegistryStorage ==
  [][/\ last'.op = "registerRule" =>
          IF RuleId(last'.arg) \in DOMAIN ruleRegistry.rules
          THEN last'.error = "DuplicateRuleId" /\ ruleRegistry' = ruleRegistry
          ELSE /\ last'.error = NoError
               /\ ruleRegistry'.rules[RuleId(last'.arg)] = last'.arg
     /\ last'.op = "registerRuleSet" =>
          IF last'.arg.id \in DOMAIN ruleRegistry.ruleSets
          THEN last'.error = "DuplicateRuleSetId" /\ ruleRegistry' = ruleRegistry
          ELSE last'.error = NoError => ruleRegistry'.ruleSets[last'.arg.id] = last'.arg
     /\ last'.op = "getRule" =>
          IF last'.arg \in DOMAIN ruleRegistry.rules
          THEN last'.error = NoError /\ last'.result = ruleRegistry.rules[last'.arg]
          ELSE last'.error = "NotFound"
     /\ last'.op = "getRuleSet" =>
          IF last'.arg \in DOMAIN ruleRegistry.ruleSets
          THEN last'.error = NoError /\ last'.result = ruleRegistry.ruleSets[last'.arg]
          ELSE last'.error = "NotFound"
     /\ \A id \in DOMAIN ruleRegistry.rules :
          id \in DOMAIN ruleRegistry'.rules /\ ruleRegistry'.rules[id] = ruleRegistry.rules[id]
     /\ \A id \in DOMAIN ruleRegistry.ruleSets :
          /\ id \in DOMAIN ruleRegistry'.ruleSets
          /\ ruleRegistry'.ruleSets[id] = ruleRegistry.ruleSets[id]]_vars

\* customB was refused because customA holds the id 'custom-rule', and the
\* rule set 'minimal' registered first is still the one stored
C25_Witness ==
  /\ last.op = "registerRule"
  /\ last.arg = "customB"
  /\ last.error = "DuplicateRuleId"
  /\ ruleRegistry.rules["custom-rule"] = "customA"
  /\ "minimal" \in DOMAIN ruleRegistry.ruleSets
  /\ ruleRegistry.ruleSets["minimal"] = RuleSet("minimal", <<"standard-turn-start">>)

\* the rules of ruleSet whose id is not registered in registry
Unregistered(registry, ruleSet) ==
  {i \in 1..Len(ruleSet.rules) : RuleId(ruleSet.rules[i]) \notin DOMAIN registry.rules}

\* C26: registerRuleSet of a set that lists a rule whose id is not registered
\* fails and leaves the registry unchanged, and after every step each rule
\* listed in each registered rule set has its id registered, so getRule
\* finds it
C26_ReferentialIntegrity ==
  [][/\ last'.op = "registerRuleSet" /\ Unregistered(ruleRegistry, last'.arg) # {} =>
          last'.error # NoError /\ ruleRegistry' = ruleRegistry
     /\ \A id \in DOMAIN ruleRegistry'.ruleSets :
          Unregistered(ruleRegistry', ruleRegistry'.ruleSets[id]) = {}]_vars

\* the rule set 'custom' was refused because the id of customB was not
\* registered, and it is not in the registry
C26_Witness ==
  /\ last.op = "registerRuleSet"
  /\ last.arg = RuleSet("custom", <<"customB">>)
  /\ last.error = "UnregisteredRule"
  /\ "custom" \notin DOMAIN ruleRegistry.ruleSets

\* C27: setRuleSet succeeds for a registered rule set id, and the dispatch
\* that follows it evaluates the rules of that rule set; setRuleSet of an id
\* that is not registered fails with a not-found error and changes nothing
C27_ActiveRuleSet ==
  [][/\ last'.op = "setRuleSet" =>
          IF last'.arg \in DOMAIN ruleRegistry.ruleSets
          THEN last'.error = NoError
          ELSE last'.error = "NotFound" /\ state' = state /\ ruleRegistry' = ruleRegistry
     /\ Dispatch /\ last.op = "setRuleSet" /\ last.error = NoError =>
          IsPrefix(last'.applied,
                   applicableRules(ruleRegistry.ruleSets[last.arg].rules, state,
                                   Context(state, last'.action)))]_vars

\* C31: setCurrentPlayerIndex(k) on a state with n players throws for k < 0
\* and for k >= n and leaves the receiver as it was, and for 0 <= k < n
\* returns the receiver with currentPlayerIndex k
C31_IndexValidation ==
  [][last'.op = "setCurrentPlayerIndex" =>
       LET k == last'.arg[1]
           n == Len(state.players)
       IN /\ last'.receiver = state
          /\ IF k < 0 \/ k >= n
             THEN last'.error = "InvalidIndex" /\ state' = state
             ELSE /\ last'.error = NoError
                  /\ last'.result = [state EXCEPT !.currentPlayerIndex = k]]_vars

\* setCurrentPlayerIndex(3) was refused on a state with three players
C31_Witness ==
  /\ last.op = "setCurrentPlayerIndex"
  /\ last.arg = <<3>>
  /\ Len(last.receiver.players) = 3
  /\ last.error = "InvalidIndex"
  /\ state = last.receiver

\* the StagnationPenalty defeat condition is configured in s
StagnationConfigured(s) ==
  \E i \in 1..Len(s.defeatConditions) : s.defeatConditions[i].type = "STAGNATION_PENALTY"

\* chaos was not modified since the game began
ChaosNeverModified(s) ==
  /\ s.lastChaosModifierPlayer = NullIndex
  /\ \A k \in 1..Len(s.eventHistory) : s.eventHistory[k].type # "CHAOS_CHANGED"

\* C32: in a one-player game, where every TurnEnd completes a round, a TurnEnd
\* at chaosLevel 3 with the StagnationPenalty condition configured and chaos
\* never modified ends with chaosNotModifiedForFullRound true and with
\* defeatTriggered and gameOver set
C32_StagnationDefeat ==
  [][/\ Dispatch
     /\ last'.action.type = "TURN_END"
     /\ Len(state.players) = 1
     /\ state.chaosLevel = 3
     /\ StagnationConfigured(state)
     /\ ChaosNeverModified(state)
     /\ ~state.metadata.gameOver
     => /\ state'.chaosNotModifiedForFullRound
        /\ state'.chaosLevel >= 3
        /\ state'.metadata.defeatTriggered
        /\ state'.metadata.gameOver]_vars

\* C33: a TurnStart dispatched when the dispatch before it was a TurnStart
\* too is not the first TurnStart of the game: it does not apply the setup
\* rule, deals no card and leaves the victory and defeat conditions alone
C33_SetupOnce ==
  [][/\ Dispatch
     /\ last'.action.type = "TURN_START"
     /\ last.action.type = "TURN_START"
     => /\ "standard-setup" \notin Range(last'.applied)
        /\ state'.players = state.players
        /\ state'.victoryConditions = state.victoryConditions
        /\ state'.defeatConditions = state.defeatConditions]_vars

\* the events of eventHistory that record the play, placement or discard of
\* cardId
CardMoveEvents(s, cardId) ==
  {k \in 1..Len(s.eventHistory) :
     /\ s.eventHistory[k].type \in {"CARD_PLAYED", "CARD_PLACED", "CARD_DISCARDED"}
     /\ s.eventHistory[k].cardId = cardId}

\* C34: a PlayCard, PlaceCard or DiscardCard naming a card that the current
\* player does not hold is dispatched with no card resolved: an error, if
\* any, is thrown by a rule that was applied; the action rule of that type is
\* not applied; hands, workplaces and the completion lane are as before and
\* no event of a play, placement or discard of that card is added
C34_UnresolvedCard ==
  [][/\ Dispatch
     /\ last'.action.type \in {"PLAY_CARD", "PLACE_CARD", "DISCARD_CARD"}
     /\ last'.action.cardId # NoCard
     /\ HandIndex(currentPlayer(state).hand, last'.action.cardId) = 0
     => /\ last'.error # NoError => last'.applied # <<>>
        /\ Range(last'.applied) \cap {"standard-play-card", "standard-place-card",
                                      "standard-discard-card"} = {}
        /\ state'.players = state.players
        /\ state'.workplaces = state.workplaces
        /\ state'.completionLane = state.completionLane
        /\ CardMoveEvents(state', last'.action.cardId)
             = CardMoveEvents(state, last'.action.cardId)]_vars

\* a PlaceCard naming a card that is not held returned without error and with
\* no rule applied
C34_Witness ==
  /\ last.op = "executeAction"
  /\ last.action.type = "PLACE_CARD"
  /\ HandIndex(currentPlayer(state).hand, last.action.cardId) = 0
  /\ last.applied = <<>>
  /\ last.error = NoError

\* the parameter as configured, or the default when it is not configured
Configured(x, default) == IF x = Undefined THEN default ELSE x

\* number of lane cards of s for which test holds
LaneCount(s, test(_)) == Cardinality({i \in 1..Len(s.completionLane) : test(s.completionLane[i])})

\* C35: BalancedProduct holds iff each category has at least categoryCount
\* lane cards (2 when not configured), WorldChangingInnovation holds iff at
\* least cardCount lane cards have situationEffect resourceValue (5 and 3 when
\* not configured), and FireExtinguishing holds iff chaosLevel is the
\* configured target (0 when not configured)
C35_VictoryParameters ==
  [][/\ last'.op = "checkBalancedProductVictory" =>
          (last'.result <=>
             \A category \in Category :
               LET InCategory(card) == category \in CardCatalog[card].categories IN
               LaneCount(state, InCategory) >= Configured(last'.condition.categoryCount, 2))
     /\ last'.op = "checkWorldChangingInnovationVictory" =>
          (last'.result <=>
             LET HasValue(card) == CardCatalog[card].situationEffect
                                     = Configured(last'.condition.resourceValue, 3)
             IN LaneCount(state, HasValue) >= Configured(last'.condition.cardCount, 5))
     /\ last'.op = "checkFireExtinguishingVictory" =>
          (last'.result <=>
             state.chaosLevel = Configured(last'.condition.targetChaosLevel, 0))]_vars

\* C36: a draw of k > 0 cards returns min(k, |deck| + |discard|) cards, taken
\* from the top of the deck first; when a card is still to be drawn and the
\* deck is empty while discard is not, the cards of discard become the deck
\* in some order and discard becomes empty; drawn cards, deck and discard
\* afterwards hold the cards of deck and discard before; deck and discard
\* are both empty afterwards only if every card of both was drawn
C36_DrawReshuffle ==
  [][last'.op \in {"drawCards", "drawCardsMUTING"} /\ last'.arg[1] > 0 =>
       LET k == last'.arg[1]
           deck == state.deck
           discard == state.discard
           drawn == last'.drawnCards
           r == last'.result
           total == Len(deck) + Len(discard)
           fromDeck == IF k < Len(deck) THEN k ELSE Len(deck)
       IN /\ Len(drawn) = IF k < total THEN k ELSE total
          /\ \A j \in 1..fromDeck : drawn[j] = deck[Len(deck) + 1 - j]
          /\ IF Len(deck) < k /\ discard # <<>>
             THEN /\ r.discard = <<>>
                  /\ \A card \in CardIds :
                       Count(SubSeq(drawn, Len(deck) + 1, Len(drawn)) \o r.deck, card)
                         = Count(discard, card)
             ELSE /\ r.discard = discard
                  /\ r.deck = SubSeq(deck, 1, Len(deck) - fromDeck)
          /\ \A card \in CardIds :
               Count(drawn \o r.deck \o r.discard, card) = Count(deck \o discard, card)
          /\ r.deck = <<>> /\ r.discard = <<>> => Len(drawn) = total
          /\ r = [state EXCEPT !.deck = r.deck, !.discard = r.discard]
          /\ last'.op = "drawCards" => state' = state
          /\ last'.op = "drawCardsMUTING" => state' = r]_vars

\* drawCards(3) on a deck of one card and a discard pile of three: the deck
\* card and two discard cards were drawn, and the third discard card is the
\* deck
C36_Witness ==
  /\ last.op = "drawCards"
  /\ last.arg = <<3>>
  /\ last.receiver.deck = <<"c1">>
  /\ last.receiver.discard = <<"c4", "c5", "c6">>
  /\ last.drawnCards = <<"c1", "c6", "c4">>
  /\ last.result.deck = <<"c5">>
  /\ last.result.discard = <<>>

\* the operations of Player
PlayerOps ==
  {"addCardToHand", "removeCardFromHand", "addCardToHandMUTING",
   "removeCardFromHandMUTING", "setMetadata"}

\* C37: addCardToHand and removeCardFromHand return a new Player with the
\* changed hand and leave the hand of the receiver as it was;
\* removeCardFromHand returns the removed card and fails when the card is not
\* in the hand; and an operation on a Player that one of the two returned
\* changes neither the hand nor the metadata seen through the Player it was
\* returned from
C37_PlayerImmutability ==
  [][last'.op \in PlayerOps =>
       LET p == last'.receiver
           index == HandIndex(Hand(heap, p), last'.arg)
       IN /\ last'.op = "addCardToHand" =>
               /\ last'.result \notin 1..Len(heap.players)
               /\ Hand(heap', last'.result) = Append(Hand(heap, p), last'.arg)
               /\ Hand(heap', p) = Hand(heap, p)
          /\ last'.op = "removeCardFromHand" =>
               IF index = 0
               THEN last'.error = "NotFound" /\ heap' = heap
               ELSE /\ last'.error = NoError
                    /\ last'.removedCard = last'.arg
                    /\ last'.result \notin 1..Len(heap.players)
                    /\ Hand(heap', last'.result) =
                         SubSeq(Hand(heap, p), 1, index - 1) \o
                         SubSeq(Hand(heap, p), index + 1, Len(Hand(heap, p)))
                    /\ Hand(heap', p) = Hand(heap, p)
          /\ heap.players[p].origin # 0 =>
               /\ Hand(heap', heap.players[p].origin) = Hand(heap, heap.players[p].origin)
               /\ Metadata(heap', heap.players[p].origin)
                    = Metadata(heap, heap.players[p].origin)]_vars

C39_OutcomePermanent ==
  [][/\ state'.metadata.gameOver <=>
          (state'.metadata.victoryAchieved \/ state'.metadata.defeatTriggered)
     /\ state.metadata.gameOver =>
          /\ state'.metadata.gameOver
          /\ state'.metadata.victoryAchieved = state.metadata.victoryAchieved
          /\ state'.metadata.defeatTriggered = state.metadata.defeatTriggered]_vars

\* C40: victoryAchieved and defeatTriggered are never both set
C40_ExclusiveOutcome ==
  ~(state.metadata.victoryAchieved /\ state.metadata.defeatTriggered)

====
